---- MODULE Spec2Model ----
(***************************************************************************)
(* Ingestion pipeline of the manual Q&A application: the document_chunks  *)
(* and manuals tables, and the edge functions that write them             *)
(*   ingest-pdf            (resumable: chunks stored with a null vector)  *)
(*   ingest-pdf            (server-driven: embeds while it ingests)       *)
(*   ingest-manual-chunks  (chunk upload from the admin page)             *)
(*   process-embeddings    (the resumable embedding step)                 *)
(*   ingest-knowledge      (bulk ingest of pre-chunked entries)           *)
(*   chat                  (retrieval, prompt, relay of the token stream) *)
(* and the chat hook of the browser that consumes the relayed stream.     *)
(* The embedding client and the chunker of the ingestion functions are     *)
(* modelled on their own: a call of the client against the embedding       *)
(* oracle, a run of the structure-aware chunkText line by line and a run   *)
(* of the fixed-window chunkText window by window.  The embedding loop of  *)
(* the admin page drives process-embeddings until it answers complete.     *)
(* Every await of a handler is one step, so invocations interleave at     *)
(* exactly the points where the code yields.  A failed await and the      *)
(* catch block it lands in are one step.  The calls that can fail are the *)
(* ones whose failure the handlers look at or step over: text extraction, *)
(* the delete, insert, select and update of chunks, and the embedding     *)
(* call.  Writes of manuals.status and the count queries are taken to     *)
(* succeed; chunk_count and processed_at are not modelled.                *)
(***************************************************************************)
EXTENDS Integers, Sequences, FiniteSets, TLC

VARIABLES
    status,           \* manuals.status, per manual
    document_chunks,  \* the rows of public.document_chunks
    nextId,           \* the next fresh row id (gen_random_uuid)
    inv,              \* the handler invocations, one record per slot
    stepComplete,     \* history: per manual, an embedding step has answered
                      \* complete=true and no chunk of it was inserted since
    poll,             \* the embedding loop of processManual on the admin page
    chat,             \* the invocation of the chat function
    client,           \* the chat hook of the browser: transcript and stream reader
    embCall,          \* a call of generateEmbedding against the embedding oracle
    chunker           \* a run of chunkText

vars == <<status, document_chunks, nextId, inv, stepComplete, poll, chat, client, embCall, chunker>>

\* the state of the ingestion side, and everything else
ingestVars == <<status, document_chunks, nextId, inv, stepComplete, poll>>
chatVars == <<chat, client, embCall, chunker>>

----------------------------------------------------------------------------
(* Bounds *)

\* rows ever inserted in the concurrent and the sequential specification
MaxIds == 2
\* chunks carried by one call in the concurrent and the sequential specification
MaxRunChunks == 2
\* chunks of one run in the specification of the tallying runs
MaxServerChunks == 11

Manuals == {"m1", "m2"}
Procs == {1, 2}
NoManual == "none"
\* the manual that is ingested again and again
TheManual == "m1"

(* Program constants *)
BATCH_SIZE == 10
SUB_BATCH == 50
insertBatchSize == 50
batchSize == 5
PdfErrorCap == 5
KnowledgeErrorCap == 10
EmbedErrorCap == 3

\* a response field the handler did not put into the JSON body
Absent == -1

\* embedding: null
Null == <<>>

Min(a, b) == IF a < b THEN a ELSE b

----------------------------------------------------------------------------
(* Data *)

\* the text of the chunk at position idx of the text being ingested
ChunkContent(idx) == <<"chunk", idx>>

\* the embedding oracle: a function of the text
generateEmbedding(text) == <<"vec", text>>

\* one row of document_chunks; embedCount is a history field counting the
\* writes of a non-null embedding into the row
Row(id, manual, idx, total, emb) ==
    [id |-> id, manual_id |-> manual, content |-> ChunkContent(idx),
     chunk_index |-> idx, total_chunks |-> total, embedding |-> emb,
     embedCount |-> IF emb = Null THEN 0 ELSE 1]

ChunksOf(d) == {r \in document_chunks : r.manual_id = d}
NullChunksOf(d) == {r \in ChunksOf(d) : r.embedding = Null}

\* .limit(k) without ORDER BY: any k of the matching rows
Limit(S, k) == IF Cardinality(S) <= k THEN {S}
               ELSE {T \in SUBSET S : Cardinality(T) = k}

----------------------------------------------------------------------------
(* Invocations *)

NoResp == [http |-> 0, complete |-> FALSE, processed |-> Absent,
           errors |-> Absent, remaining |-> Absent, sampleErrors |-> Absent]

\* a faulty variant: the catch block forgets the status of the Response
ErrorRespFaulty == [NoResp EXCEPT !.http = 200]

\* JSON.stringify({ error }), status 500
ErrorResp == [NoResp EXCEPT !.http = 500]

\* a 200 body without the step counters
OkResp == [NoResp EXCEPT !.http = 200]

IdleInv ==
    [kind |-> "none", pc |-> "idle", doc |-> NoManual,
     clearFirst |-> FALSE, finalize |-> FALSE, start |-> 0, total |-> 0,
     n |-> 0, i |-> 0, ins |-> {}, sel |-> {}, todo |-> {}, failed |-> {},
     successCount |-> 0, errorCount |-> 0, errLen |-> 0,
     status0 |-> "", hadChunks |-> FALSE, wasComplete |-> FALSE,
     wrote |-> <<>>, resp |-> NoResp]

Free(p) == inv[p].pc = "idle"
Quiet == \A q \in Procs : Free(q)
At(p, k, l) == inv[p].kind = k /\ inv[p].pc = l

\* no embedding loop on the admin page, no chat request in flight, no turn
\* in the browser
IdlePoll == [pc |-> "idle"]
IdleChat == [pc |-> "idle"]
IdleClient == [pc |-> "idle"]
IdleEmb == [pc |-> "idle"]
IdleChunker == [pc |-> "idle"]

Init ==
    /\ status = [d \in Manuals |-> "pending"]
    /\ document_chunks = {}
    /\ nextId = 1
    /\ inv = [p \in Procs |-> IdleInv]
    /\ stepComplete = [d \in Manuals |-> FALSE]
    /\ poll = IdlePoll
    /\ chat = IdleChat
    /\ client = IdleClient
    /\ embCall = IdleEmb
    /\ chunker = IdleChunker

\* the rows a bulk insert of positions lo..hi-1 adds
NewRows(d, first, lo, hi, start, total, emb) ==
    {Row(first + (k - lo), d, start + k, total, emb) : k \in lo .. (hi - 1)}

Me(p) == inv[p]

\* the invocation goes on
Set(p, r) == inv' = [inv EXCEPT ![p] = r] /\ UNCHANGED <<poll, chatVars>>

\* the request arrives: the slot holds the new invocation
Arrive(p, d, r) ==
    /\ Free(p)
    /\ \A q \in Procs : q < p => ~Free(q)
    /\ inv' = [inv EXCEPT ![p] =
                 IF d = NoManual THEN r
                 ELSE [r EXCEPT !.doc = d, !.status0 = status[d],
                                !.hadChunks = ChunksOf(d) # {},
                                !.wasComplete = stepComplete[d]]]
    /\ UNCHANGED <<poll, chatVars>>

\* the handler returns its Response
Return(p, r) == Set(p, [r EXCEPT !.pc = "respond", !.todo = {}])

\* the response is sent: the slot is free again
Respond(p) ==
    /\ inv[p].pc = "respond"
    /\ inv' = [inv EXCEPT ![p] = IdleInv]
    /\ UNCHANGED <<status, document_chunks, nextId, stepComplete>>
    /\ UNCHANGED <<poll, chatVars>>
SetStatus(d, s) == status' = [status EXCEPT ![d] = s]
Inserted(d) == stepComplete' = [stepComplete EXCEPT ![d] = FALSE]

\* what the catch block of a handler leaves in manuals.status
CatchStatus(kind, cur) ==
    IF kind \in {"pdf", "srv"} THEN "error" ELSE cur

\* the catch block: the status it writes (if it writes one) and the 500 body
Catch(p) ==
    LET me == Me(p)
        s  == CatchStatus(me.kind, IF me.doc = NoManual THEN "" ELSE status[me.doc])
    IN /\ status' = IF me.doc = NoManual THEN status
                    ELSE [status EXCEPT ![me.doc] = s]
       /\ Return(p, [me EXCEPT !.resp = ErrorResp,
                               !.wrote = IF me.kind \in {"pdf", "srv"}
                                      THEN Append(@, s) ELSE @])

\* a bulk insert of the positions lo..hi-1 of the invocation's chunk list
BulkInsert(p, lo, hi, emb) ==
    LET me == Me(p)
        rows == NewRows(me.doc, nextId, lo, hi, me.start, me.total, emb)
    IN /\ document_chunks' = document_chunks \cup rows
       /\ nextId' = nextId + (hi - lo)
       /\ Inserted(me.doc)

----------------------------------------------------------------------------
(* ingest-pdf, resumable: extract, replace the chunks, leave them unembedded *)

PdfStatusAtStart == "extracting"
\* a faulty variant: the run ends by resetting the status
PdfStatusAtEndFaulty == "pending"
PdfStatusAtEnd == "embedding"

PdfStart(p, d) ==
    /\ Arrive(p, d, [IdleInv EXCEPT !.kind = "pdf", !.pc = "extract",
                                    !.wrote = <<PdfStatusAtStart>>])
    /\ SetStatus(d, PdfStatusAtStart)
    /\ UNCHANGED <<document_chunks, nextId, stepComplete>>

\* download, extraction call and the length check of the extracted text
PdfExtract(p) ==
    /\ At(p, "pdf", "extract")
    /\ \/ Set(p, [Me(p) EXCEPT !.pc = "delete"]) /\ UNCHANGED status
       \/ Catch(p)
    /\ UNCHANGED <<document_chunks, nextId, stepComplete>>

\* the delete of the old rows, whose error is not read, then chunkText
PdfDelete(p, n) ==
    /\ At(p, "pdf", "delete")
    /\ \/ document_chunks' = document_chunks \ ChunksOf(Me(p).doc)
       \/ document_chunks' = document_chunks
    /\ Set(p, [Me(p) EXCEPT !.pc = "insert", !.n = n, !.total = n])
    /\ UNCHANGED <<status, nextId, stepComplete>>

PdfInsert(p, cap) ==
    /\ At(p, "pdf", "insert")
    /\ LET me == Me(p)
           lo == me.i
           hi == Min(me.i + insertBatchSize, me.n)
       IN \/ /\ nextId + (hi - lo) - 1 <= cap
             /\ BulkInsert(p, lo, hi, Null)
             /\ Set(p, [me EXCEPT !.i = hi, !.successCount = @ + (hi - lo),
                                  !.ins = @ \cup (nextId .. (nextId + (hi - lo) - 1)),
                                  !.pc = IF hi >= me.n THEN "finish" ELSE "insert"])
             /\ UNCHANGED status
          \/ /\ Catch(p)
             /\ UNCHANGED <<document_chunks, nextId, stepComplete>>

PdfFinish(p) ==
    /\ At(p, "pdf", "finish")
    /\ SetStatus(Me(p).doc, PdfStatusAtEnd)
    /\ Return(p, [Me(p) EXCEPT !.resp = OkResp,
                               !.wrote = Append(@, PdfStatusAtEnd)])
    /\ UNCHANGED <<document_chunks, nextId, stepComplete>>

----------------------------------------------------------------------------
(* ingest-manual-chunks: one call of the admin page's upload loop *)

UpStatusAtClear == "chunking"
UpStatusAtFinalize == "embedding"

\* position of the first chunk of a call: the admin page sends the chunks in
\* order, a full batch per call, and sets clearFirst on the first call only
UpFirstIndex(clearFirst) == IF clearFirst THEN 0 ELSE MaxRunChunks

UpStart(p, d, clearFirst, finalize, n) ==
    /\ LET start == UpFirstIndex(clearFirst)
           total == start + n
           me == [IdleInv EXCEPT !.kind = "up", !.n = n,
                                 !.clearFirst = clearFirst, !.finalize = finalize,
                                 !.start = start, !.total = total]
       IN IF clearFirst
          THEN /\ SetStatus(d, UpStatusAtClear)
               /\ Arrive(p, d, [me EXCEPT !.pc = "delete",
                                          !.wrote = <<UpStatusAtClear>>])
          ELSE /\ Arrive(p, d, [me EXCEPT !.pc = "insert"])
               /\ UNCHANGED status
    /\ UNCHANGED <<document_chunks, nextId, stepComplete>>

UpDelete(p) ==
    /\ At(p, "up", "delete")
    /\ \/ /\ document_chunks' = document_chunks \ ChunksOf(Me(p).doc)
          /\ Set(p, [Me(p) EXCEPT !.pc = "insert"])
          /\ UNCHANGED status
       \/ /\ Catch(p)
          /\ UNCHANGED document_chunks
    /\ UNCHANGED <<nextId, stepComplete>>

UpInsert(p, cap) ==
    /\ At(p, "up", "insert")
    /\ LET me == Me(p)
           lo == me.i
           hi == Min(me.i + SUB_BATCH, me.n)
           last == hi >= me.n
       IN \/ /\ nextId + (hi - lo) - 1 <= cap
             /\ BulkInsert(p, lo, hi, Null)
             /\ LET r == [me EXCEPT !.i = hi, !.successCount = @ + (hi - lo),
                                    !.ins = @ \cup (nextId .. (nextId + (hi - lo) - 1))]
                IN IF ~last THEN Set(p, r)
                   ELSE IF me.finalize THEN Set(p, [r EXCEPT !.pc = "finalize"])
                   ELSE Return(p, [r EXCEPT !.resp = OkResp])
             /\ UNCHANGED status
          \/ /\ Catch(p)
             /\ UNCHANGED <<document_chunks, nextId, stepComplete>>

UpFinalize(p) ==
    /\ At(p, "up", "finalize")
    /\ SetStatus(Me(p).doc, UpStatusAtFinalize)
    /\ Return(p, [Me(p) EXCEPT !.resp = OkResp,
                               !.wrote = Append(@, UpStatusAtFinalize)])
    /\ UNCHANGED <<document_chunks, nextId, stepComplete>>

----------------------------------------------------------------------------
(* process-embeddings: the resumable embedding step *)

PeStatusAtComplete == "ready"

\* the body of the early return: no chunk without embedding was selected
PeEarlyResp == [OkResp EXCEPT !.complete = TRUE]

\* the body of the normal return
PeResp(me, remaining) ==
    [OkResp EXCEPT !.complete = (remaining = 0), !.processed = me.successCount,
                   !.errors = me.errorCount, !.remaining = remaining]

\* a faulty variant: the update without its .eq("id", id) filter
UpdateEmbeddingFaulty(rows, id, emb) ==
    {[r EXCEPT !.embedding = emb, !.embedCount = Min(@ + 1, 2)] : r \in rows}

\* .update({ embedding }).eq("id", id)
UpdateEmbedding(rows, id, emb) ==
    {IF r.id = id THEN [r EXCEPT !.embedding = emb, !.embedCount = Min(@ + 1, 2)] ELSE r
       : r \in rows}

PeStart(p, d) ==
    /\ Arrive(p, d, [IdleInv EXCEPT !.kind = "pe", !.pc = "fetch"])
    /\ UNCHANGED <<status, document_chunks, nextId, stepComplete>>

\* the select of up to BATCH_SIZE chunks without embedding
PeFetch(p) ==
    /\ At(p, "pe", "fetch")
    /\ \/ Catch(p)
       \/ /\ \E S \in Limit(NullChunksOf(Me(p).doc), BATCH_SIZE) :
               Set(p, [Me(p) EXCEPT
                         !.pc = IF S = {} THEN "allDone" ELSE "embed",
                         !.n = Cardinality(S),
                         !.sel = {r.id : r \in S},
                         !.todo = {[id |-> r.id, content |-> r.content] : r \in S}])
          /\ UNCHANGED status
    /\ UNCHANGED <<document_chunks, nextId, stepComplete>>

\* nothing was selected: the status is set to ready and the early body returned
PeAllDone(p) ==
    /\ At(p, "pe", "allDone")
    /\ SetStatus(Me(p).doc, PeStatusAtComplete)
    /\ Return(p, [Me(p) EXCEPT !.resp = PeEarlyResp,
                               !.wrote = Append(@, PeStatusAtComplete)])
    /\ stepComplete' = [stepComplete EXCEPT ![Me(p).doc] = TRUE]
    /\ UNCHANGED <<document_chunks, nextId>>

\* a faulty variant: successCount is incremented before the update is checked
PeTallyFaulty(me, c, ok) ==
    [me EXCEPT !.todo = @ \ {c},
               !.successCount = @ + 1,
               !.errorCount = IF ok THEN @ ELSE @ + 1,
               !.errLen = IF ~ok /\ @ < EmbedErrorCap THEN @ + 1 ELSE @,
               !.failed = IF ok THEN @ ELSE @ \cup {c.id},
               !.pc = IF me.todo \ {c} = {} THEN "count" ELSE "embed"]

\* the tally of one chunk of the loop
PeTally(me, c, ok) ==
    [me EXCEPT !.todo = @ \ {c},
               !.successCount = IF ok THEN @ + 1 ELSE @,
               !.errorCount = IF ok THEN @ ELSE @ + 1,
               !.errLen = IF ~ok /\ @ < EmbedErrorCap THEN @ + 1 ELSE @,
               !.failed = IF ok THEN @ ELSE @ \cup {c.id},
               !.pc = IF me.todo \ {c} = {} THEN "count" ELSE "embed"]

\* one chunk of the loop: the embedding call and the update of the row
PeEmbed(p) ==
    /\ At(p, "pe", "embed")
    /\ \E c \in Me(p).todo :
         \/ /\ document_chunks' =
                 UpdateEmbedding(document_chunks, c.id, generateEmbedding(c.content))
            /\ Set(p, PeTally(Me(p), c, TRUE))
         \/ /\ UNCHANGED document_chunks
            /\ Set(p, PeTally(Me(p), c, FALSE))
    /\ UNCHANGED <<status, nextId, stepComplete>>

\* the count of the chunks still without embedding
PeCount(p) ==
    /\ At(p, "pe", "count")
    /\ LET remaining == Cardinality(NullChunksOf(Me(p).doc))
           r == [Me(p) EXCEPT !.resp = PeResp(Me(p), remaining)]
       IN IF remaining = 0 THEN Set(p, [r EXCEPT !.pc = "complete"])
          ELSE Return(p, r)
    /\ UNCHANGED <<status, document_chunks, nextId, stepComplete>>

\* remaining = 0: the status is set to ready before the body is returned
PeComplete(p) ==
    /\ At(p, "pe", "complete")
    /\ SetStatus(Me(p).doc, PeStatusAtComplete)
    /\ Return(p, [Me(p) EXCEPT !.wrote = Append(@, PeStatusAtComplete)])
    /\ stepComplete' = [stepComplete EXCEPT ![Me(p).doc] = TRUE]
    /\ UNCHANGED <<document_chunks, nextId>>

----------------------------------------------------------------------------
(* ingest-pdf, server-driven: every chunk is embedded and inserted by the  *)
(* run itself, batchSize chunks at a time under Promise.allSettled.  The   *)
(* chunks of a batch settle in any order; the order only permutes the ids  *)
(* of the inserted rows, so the model settles them by position.            *)

SrvStatusAtStart == "processing"
SrvStatusAtEnd == "ready"

SrvStart(p, d) ==
    /\ Arrive(p, d, [IdleInv EXCEPT !.kind = "srv", !.pc = "extract",
                                    !.wrote = <<SrvStatusAtStart>>])
    /\ SetStatus(d, SrvStatusAtStart)
    /\ UNCHANGED <<document_chunks, nextId, stepComplete>>

SrvExtract(p) ==
    /\ At(p, "srv", "extract")
    /\ \/ Set(p, [Me(p) EXCEPT !.pc = "delete"]) /\ UNCHANGED status
       \/ Catch(p)
    /\ UNCHANGED <<document_chunks, nextId, stepComplete>>

\* the delete of the old rows, whose error is logged only, then chunkText
SrvDelete(p, n) ==
    /\ At(p, "srv", "delete")
    /\ \/ document_chunks' = document_chunks \ ChunksOf(Me(p).doc)
       \/ document_chunks' = document_chunks
    /\ Set(p, [Me(p) EXCEPT !.pc = "batch", !.n = n, !.total = n])
    /\ UNCHANGED <<status, nextId, stepComplete>>

\* a faulty variant: every message of a rejected promise is kept
TallyBatchFaulty(me, rejected, cap) ==
    LET size == Min(me.i + 1, me.n) - (me.i - (me.i % batchSize))
        bad  == Cardinality(rejected)
    IN [me EXCEPT !.successCount = @ + (size - bad),
                  !.errorCount = @ + bad,
                  !.errLen = @ + bad,
                  !.failed = {}]

\* the loop over the results of a settled batch: fulfilled and rejected
\* promises are counted, at most cap messages are kept
TallyBatch(me, rejected, cap) ==
    LET size == Min(me.i + 1, me.n) - (me.i - (me.i % batchSize))
        bad  == Cardinality(rejected)
    IN [me EXCEPT !.successCount = @ + (size - bad),
                  !.errorCount = @ + bad,
                  !.errLen = Min(@ + bad, cap),
                  !.failed = {}]

\* the promise of the chunk at position i settles; the last one of a batch
\* ends the allSettled and the results are tallied
SrvSettle(me, ok) ==
    LET rejected == IF ok THEN me.failed ELSE me.failed \cup {me.i}
        lastOfBatch == (me.i + 1) % batchSize = 0 \/ me.i + 1 >= me.n
        after == IF lastOfBatch THEN TallyBatch(me, rejected, PdfErrorCap)
                 ELSE [me EXCEPT !.failed = rejected]
    IN [after EXCEPT !.i = me.i + 1,
                     !.pc = IF me.i + 1 >= me.n THEN "finish" ELSE "batch"]

\* one chunk of the batch: generateEmbedding, then the insert of the row
SrvItem(p, cap) ==
    /\ At(p, "srv", "batch")
    /\ LET me == Me(p)
       IN \/ /\ nextId <= cap
             /\ document_chunks' = document_chunks \cup
                  {Row(nextId, me.doc, me.i, me.n,
                       generateEmbedding(ChunkContent(me.i)))}
             /\ nextId' = nextId + 1
             /\ Inserted(me.doc)
             /\ Set(p, [SrvSettle(me, TRUE) EXCEPT !.ins = @ \cup {nextId}])
          \/ /\ Set(p, SrvSettle(me, FALSE))
             /\ UNCHANGED <<document_chunks, nextId, stepComplete>>
    /\ UNCHANGED status

SrvFinish(p) ==
    /\ At(p, "srv", "finish")
    /\ SetStatus(Me(p).doc, SrvStatusAtEnd)
    /\ Return(p, [Me(p) EXCEPT !.wrote = Append(@, SrvStatusAtEnd),
                               !.resp = [OkResp EXCEPT
                                           !.processed = Me(p).successCount,
                                           !.errors = Me(p).errorCount]])
    /\ UNCHANGED <<document_chunks, nextId, stepComplete>>

----------------------------------------------------------------------------
(* ingest-knowledge: embeds and inserts the entries of the body one by one *)

\* the text sent to the oracle: a Date/Subject header and the content
KnText(content) == <<"entry", content>>

KnStart(p, clearFirst, n) ==
    /\ Arrive(p, NoManual, [IdleInv EXCEPT !.kind = "kn", !.n = n, !.total = n,
                                           !.clearFirst = clearFirst,
                                           !.pc = IF clearFirst THEN "delete"
                                                  ELSE "loop"])
    /\ UNCHANGED <<status, document_chunks, nextId, stepComplete>>

\* clearFirst: delete().neq("id", <nil uuid>) matches every row of the table
KnDelete(p) ==
    /\ At(p, "kn", "delete")
    /\ \/ /\ document_chunks' = {}
          /\ Set(p, [Me(p) EXCEPT !.pc = "loop"])
          /\ UNCHANGED status
       \/ /\ Catch(p)
          /\ UNCHANGED document_chunks
    /\ UNCHANGED <<nextId, stepComplete>>

\* recordSampleError: the message is kept while fewer than the cap are held
recordSampleError(len) == IF len >= KnowledgeErrorCap THEN len ELSE len + 1

\* the tally of one entry of the loop
KnTally(me, ok) ==
    [me EXCEPT !.i = @ + 1,
               !.successCount = IF ok THEN @ + 1 ELSE @,
               !.errorCount = IF ok THEN @ ELSE @ + 1,
               !.errLen = IF ok THEN @ ELSE recordSampleError(@),
               !.pc = IF me.i + 1 >= me.n THEN "finish" ELSE "loop"]

\* one entry: generateEmbedding, then the insert; either may fail
KnItem(p, cap) ==
    /\ At(p, "kn", "loop")
    /\ LET me == Me(p)
       IN \/ /\ nextId <= cap
             /\ document_chunks' = document_chunks \cup
                  {Row(nextId, NoManual, me.i, me.n,
                       generateEmbedding(KnText(ChunkContent(me.i))))}
             /\ nextId' = nextId + 1
             /\ Set(p, [KnTally(me, TRUE) EXCEPT !.ins = @ \cup {nextId}])
          \/ /\ Set(p, KnTally(me, FALSE))
             /\ UNCHANGED <<document_chunks, nextId>>
    /\ UNCHANGED <<status, stepComplete>>

KnFinish(p) ==
    /\ At(p, "kn", "finish")
    /\ Return(p, [Me(p) EXCEPT !.resp = [OkResp EXCEPT
                                           !.processed = Me(p).successCount,
                                           !.errors = Me(p).errorCount,
                                           !.sampleErrors = Me(p).errLen]])
    /\ UNCHANGED <<status, document_chunks, nextId, stepComplete>>

----------------------------------------------------------------------------
(* Specifications *)

StartPdf == \E p \in Procs : PdfStart(p, TheManual)
StepPdfExtract == \E p \in Procs : PdfExtract(p)
StepPdfDelete == \E p \in Procs, n \in 1 .. MaxRunChunks : PdfDelete(p, n)
StepPdfInsert == \E p \in Procs : PdfInsert(p, MaxIds)
StepPdfFinish == \E p \in Procs : PdfFinish(p)
StartUpOf(D) == \E p \in Procs, d \in D, cf \in BOOLEAN, fin \in BOOLEAN,
                   n \in 1 .. MaxRunChunks : UpStart(p, d, cf, fin, n)
StartUp == StartUpOf({TheManual})
StepUpDelete == \E p \in Procs : UpDelete(p)
StepUpInsert == \E p \in Procs : UpInsert(p, MaxIds)
StepUpFinalize == \E p \in Procs : UpFinalize(p)
StartPeOf(D) == \E p \in Procs, d \in D : PeStart(p, d)
StartPe == StartPeOf({TheManual})
StepPeFetch == \E p \in Procs : PeFetch(p)
StepPeAllDone == \E p \in Procs : PeAllDone(p)
StepPeEmbed == \E p \in Procs : PeEmbed(p)
StepPeCount == \E p \in Procs : PeCount(p)
StepPeComplete == \E p \in Procs : PeComplete(p)

StartSrv == \E p \in Procs : SrvStart(p, TheManual)
StepSrvExtract == \E p \in Procs : SrvExtract(p)
StepSrvDelete == \E p \in Procs, n \in 1 .. MaxRunChunks : SrvDelete(p, n)
StepSrvItem == \E p \in Procs : SrvItem(p, MaxIds)
StepSrvFinish == \E p \in Procs : SrvFinish(p)
StepRespond == \E p \in Procs : Respond(p)

\* a request arrives
Start == StartPdf \/ StartSrv \/ StartUp \/ StartPe

\* an invocation in flight takes its next step
Step ==
    \/ StepPdfExtract \/ StepPdfDelete \/ StepPdfInsert \/ StepPdfFinish
    \/ StepSrvExtract \/ StepSrvDelete \/ StepSrvItem \/ StepSrvFinish
    \/ StepUpDelete \/ StepUpInsert \/ StepUpFinalize
    \/ StepPeFetch \/ StepPeAllDone \/ StepPeEmbed \/ StepPeCount \/ StepPeComplete
    \/ StepRespond

\* one caller at a time, re-ingesting one manual by every route: a request
\* arrives only when no invocation is in flight
Next == (Quiet /\ Start) \/ Step

Spec == Init /\ [][Next]_vars

\* one caller at a time, uploading to and embedding two manuals
StartUpAny == StartUpOf(Manuals)
StartPeAny == StartPeOf(Manuals)

NextManuals ==
    \/ Quiet /\ (StartUpAny \/ StartPeAny)
    \/ StepUpDelete \/ StepUpInsert \/ StepUpFinalize
    \/ StepPeFetch \/ StepPeAllDone \/ StepPeEmbed \/ StepPeCount \/ StepPeComplete
    \/ StepRespond

SpecManuals == Init /\ [][NextManuals]_vars

\* the embedding step is also invoked by other callers (a second admin page,
\* a scheduler): it arrives while an invocation for the same manual is in flight
StartPeOverlap ==
    \E p, q \in Procs : ~Free(q) /\ inv[q].doc \in Manuals /\ PeStart(p, inv[q].doc)

NextOverlap ==
    \/ Quiet /\ (StartUpAny \/ StartPeAny)
    \/ StartPeOverlap
    \/ StepUpDelete \/ StepUpInsert \/ StepUpFinalize
    \/ StepPeFetch \/ StepPeAllDone \/ StepPeEmbed \/ StepPeCount \/ StepPeComplete
    \/ StepRespond

SpecOverlap == Init /\ [][NextOverlap]_vars

\* the runs that tally their chunks, on texts long enough to fill the error
\* samples; a run starts while no row has been inserted yet
StepSrvDeleteLong == \E p \in Procs, n \in 1 .. MaxServerChunks : SrvDelete(p, n)
StepSrvItemLong == \E p \in Procs : SrvItem(p, MaxServerChunks)
StartKn == \E p \in Procs, cf \in BOOLEAN, n \in 1 .. MaxServerChunks :
              KnStart(p, cf, n)
StepKnDelete == \E p \in Procs : KnDelete(p)
StepKnItem == \E p \in Procs : KnItem(p, MaxServerChunks)
StepKnFinish == \E p \in Procs : KnFinish(p)

NextServer ==
    \/ Quiet /\ nextId = 1 /\ (StartSrv \/ StartKn)
    \/ StepSrvExtract \/ StepSrvDeleteLong \/ StepSrvItemLong \/ StepSrvFinish
    \/ StepKnDelete \/ StepKnItem \/ StepKnFinish
    \/ StepRespond

SpecServer == Init /\ [][NextServer]_vars

\* one caller at a time, ingesting two manuals by ingest-pdf and by upload,
\* and knowledge entries by ingest-knowledge, into the one table
StartPdfAny == \E p \in Procs, d \in Manuals : PdfStart(p, d)
StartKnShort == \E p \in Procs, cf \in BOOLEAN, n \in 1 .. MaxRunChunks :
                   KnStart(p, cf, n)
StepKnItemShort == \E p \in Procs : KnItem(p, MaxIds)

NextShared ==
    \/ Quiet /\ (StartPdfAny \/ StartUpAny \/ StartKnShort)
    \/ StepPdfExtract \/ StepPdfDelete \/ StepPdfInsert \/ StepPdfFinish
    \/ StepUpDelete \/ StepUpInsert \/ StepUpFinalize
    \/ StepKnDelete \/ StepKnItemShort \/ StepKnFinish
    \/ StepRespond

SpecShared == Init /\ [][NextShared]_vars

----------------------------------------------------------------------------
(* The admin page: step 5 of processManual invokes process-embeddings until  *)
(* it answers complete.  The chunks have been uploaded before the loop.      *)

\* a faulty variant: the loop stops at the first answer
PollCompleteFaulty(resp) == TRUE

\* complete = embedData?.complete || false
PollComplete(resp) == resp.complete

\* the uploads are over: let complete = false
PollBegin ==
    /\ poll.pc = "idle"
    /\ Quiet
    /\ poll' = [pc |-> "loop", manualId |-> TheManual, last |-> NoResp]
    /\ UNCHANGED <<status, document_chunks, nextId, inv, stepComplete, chatVars>>

\* supabase.functions.invoke("process-embeddings", { body: { manualId } })
PollInvoke ==
    /\ poll.pc = "loop"
    /\ Quiet
    /\ StartPeOf({poll.manualId})

\* the answer arrives: an error is thrown, or complete is taken from the body
PollReceive(p) ==
    /\ poll.pc = "loop"
    /\ inv[p].kind = "pe"
    /\ inv[p].pc = "respond"
    /\ poll' = [poll EXCEPT
                  !.last = inv[p].resp,
                  !.pc = IF inv[p].resp.http # 200 THEN "failed"
                         ELSE IF PollComplete(inv[p].resp) THEN "done"
                         ELSE "loop"]
    /\ inv' = [inv EXCEPT ![p] = IdleInv]
    /\ UNCHANGED <<status, document_chunks, nextId, stepComplete, chatVars>>

StepUpRespond == \E p \in Procs : inv[p].kind = "up" /\ Respond(p)
StepPollReceive == \E p \in Procs : PollReceive(p)

\* an embedding call of the step succeeds
PeEmbedSucceeds ==
    \E p \in Procs : PeEmbed(p) /\ document_chunks' # document_chunks

NextPoll ==
    \/ Quiet /\ poll.pc = "idle" /\ StartUp
    \/ StepUpDelete \/ StepUpInsert \/ StepUpFinalize \/ StepUpRespond
    \/ PollBegin \/ PollInvoke
    \/ StepPeFetch \/ StepPeAllDone \/ StepPeEmbed \/ StepPeCount \/ StepPeComplete
    \/ StepPollReceive

SpecPoll == Init /\ [][NextPoll]_vars

\* the loop and the step go on, and an embedding call that is made again and
\* again succeeds in the end
SpecPollFair ==
    /\ SpecPoll
    /\ WF_vars(PollInvoke) /\ WF_vars(StepPollReceive)
    /\ WF_vars(StepPeFetch) /\ WF_vars(StepPeAllDone) /\ WF_vars(StepPeEmbed)
    /\ WF_vars(StepPeCount) /\ WF_vars(StepPeComplete)
    /\ SF_vars(PeEmbedSucceeds)

----------------------------------------------------------------------------
(* chat: retrieval of the grounding context *)

\* rows of document_chunks when a chat request arrives
MaxChatRows == 3

\* the positions of the chunks of the stored texts
ChatIndexes == 0 .. 3

\* the numbers of the '--- Page N ---' markers in the chunk at each position,
\* in the order of the text; the chunk at 3 runs over a stretch of empty pages
ManualPages ==
    << <<1>>, <<>>, <<2, 3>>, <<3, 4, 5, 6, 7, 8, 9, 10, 11, 12>> >>

\* chunk.content.matchAll(/---\s*Page\s+(\d+)\s*---/gi), parseInt of each
PageMarkers(content) == ManualPages[content[2] + 1]

\* the questions asked, and 100 * the cosine similarity of each question to
\* the chunk at each position
Queries == 1 .. 4
QuerySim ==
    << <<80, 80, 80, 80>>, <<40, 15, 80, 60>>,
       <<15, 10, 15, 10>>, <<60, 40, 40, 80>> >>

\* 1 - (embedding <=> query_embedding), in hundredths
Similarity(qe, ce) == QuerySim[qe[2]][ce[2][2] + 1]

\* the arguments retrieveRelevantChunks passes to the rpc
match_count == 20
match_threshold == 15

\* the cap on the page numbers handed to the page-image event
MaxPages == 10

\* a faulty variant: the WHERE clause without the manual_id filter
MatchingFaulty(rows, qe, d, th) ==
    {r \in rows : r.embedding # Null /\ Similarity(qe, r.embedding) > th}

\* the WHERE clause of match_chunks_by_manual
Matching(rows, qe, d, th) ==
    {r \in rows : /\ r.manual_id = d
                  /\ r.embedding # Null
                  /\ Similarity(qe, r.embedding) > th}

\* a faulty variant: the query without its ORDER BY
OrderingsFaulty(S, qe) ==
    {f \in [1 .. Cardinality(S) -> S] :
        \A i, j \in 1 .. Cardinality(S) : i < j => f[i] # f[j]}

\* the orders in which ORDER BY distance may return the rows: rows at the
\* same distance come in any order
Orderings(S, qe) ==
    {f \in [1 .. Cardinality(S) -> S] :
        /\ \A i, j \in 1 .. Cardinality(S) : i < j => f[i] # f[j]
        /\ \A i, j \in 1 .. Cardinality(S) :
             i < j => Similarity(qe, f[i].embedding) >= Similarity(qe, f[j].embedding)}

\* match_chunks_by_manual: the results the function may return
match_chunks_by_manual(rows, qe, d, cnt, th) ==
    {[i \in 1 .. Min(cnt, Len(f)) |->
        [id |-> f[i].id, content |-> f[i].content,
         similarity |-> Similarity(qe, f[i].embedding)]]
       : f \in Orderings(Matching(rows, qe, d, th), qe)}

\* Array.from(set).sort((a, b) => a - b)
RECURSIVE SortAsc(_)
SortAsc(S) ==
    IF S = {} THEN <<>>
    ELSE LET m == CHOOSE x \in S : \A y \in S : x <= y
         IN <<m>> \o SortAsc(S \ {m})

\* a faulty variant: the slice is forgotten
SliceFaulty(seq, k) == seq

\* .slice(0, k)
Slice(seq, k) == SubSeq(seq, 1, Min(k, Len(seq)))

Range(seq) == {seq[i] : i \in 1 .. Len(seq)}

\* the base prompt: its instructions, among them the one to say that the
\* information is not in the manual
SYSTEM_PROMPT == <<"instructions", "fallback">>

\* `[Section ${idx + 1}]\n${c.content}` for every chunk, under the heading
formatContext(chunks) ==
    <<"RELEVANT MANUAL CONTENT">> \o
    [i \in 1 .. Len(chunks) |-> [section |-> i, content |-> chunks[i].content]]

\* { context: "", chunks: [], pageNumbers: [] }
EmptyRetrieval == [context |-> <<>>, chunks |-> <<>>, pageNumbers |-> <<>>]

\* a faulty variant: the early return for an empty result is missing
RetrievalResultFaulty(chunks) ==
    [context |-> formatContext(chunks), chunks |-> <<>>, pageNumbers |-> <<>>]

\* what retrieveRelevantChunks returns for the rows the rpc returned
RetrievalResult(chunks) ==
    IF Len(chunks) = 0 THEN EmptyRetrieval
    ELSE [context |-> formatContext(chunks),
          chunks |-> [i \in 1 .. Len(chunks) |->
                        [content |-> chunks[i].content,
                         pageNumber |-> IF PageMarkers(chunks[i].content) = <<>>
                                        THEN 0
                                        ELSE PageMarkers(chunks[i].content)[1]]],
          pageNumbers |->
              Slice(SortAsc(UNION {Range(PageMarkers(chunks[i].content))
                                     : i \in 1 .. Len(chunks)}), MaxPages)]

\* pageNumbers.map(pageNum => ({ url, pageNumber }))
PageImageData(manualId, pageNumbers) ==
    [i \in 1 .. Len(pageNumbers) |->
        [url |-> <<"manuals", manualId, "pages", pageNumbers[i]>>,
         pageNumber |-> pageNumbers[i]]]

\* the request arrives with a manual and a question
ChatStart(d, q) ==
    /\ chat.pc = "idle"
    /\ chat' = [pc |-> "embed", manualId |-> d, query |-> q,
                queryEmbedding |-> Null, rpc |-> <<>>, rpcOk |-> FALSE,
                retrieval |-> EmptyRetrieval, pageImageData |-> <<>>,
                systemPrompt |-> <<>>, backendStatus |-> 0, upstream |-> <<>>,
                bytes |-> <<>>, buffer |-> <<>>,
                out |-> <<>>, http |-> 0, body |-> "", stream |-> "none"]
    /\ UNCHANGED <<ingestVars, client, embCall, chunker>>

\* a faulty variant: the heading of the context is added whatever was found
RetrievedFaulty(res) ==
    [chat EXCEPT !.pc = "fetch", !.retrieval = res,
                 !.pageImageData = PageImageData(chat.manualId, res.pageNumbers),
                 !.systemPrompt = SYSTEM_PROMPT \o formatContext(res.chunks)]

\* the retrieval is over: the page images and the prompt are built
Retrieved(res) ==
    [chat EXCEPT !.pc = "fetch", !.retrieval = res,
                 !.pageImageData = PageImageData(chat.manualId, res.pageNumbers),
                 !.systemPrompt = SYSTEM_PROMPT \o res.context]

\* generateEmbedding(query); a failure is caught inside retrieveRelevantChunks
ChatEmbed ==
    /\ chat.pc = "embed"
    /\ \/ chat' = [chat EXCEPT !.pc = "rpc",
                               !.queryEmbedding = generateEmbedding(chat.query)]
       \/ chat' = Retrieved(EmptyRetrieval)
    /\ UNCHANGED <<ingestVars, client, embCall, chunker>>

\* supabase.rpc("match_chunks_by_manual", ...), then the page numbers and the
\* formatted context
ChatRpc ==
    /\ chat.pc = "rpc"
    /\ \/ \E chunks \in match_chunks_by_manual(document_chunks, chat.queryEmbedding,
                                               chat.manualId, match_count,
                                               match_threshold) :
            chat' = [Retrieved(RetrievalResult(chunks)) EXCEPT
                       !.rpc = chunks, !.rpcOk = TRUE]
       \/ chat' = Retrieved(EmptyRetrieval)
    /\ UNCHANGED <<ingestVars, client, embCall, chunker>>

\* the row at each position of a stored table: manual, chunk position and
\* whether the chunk has been embedded
ShapeCodes == 0 .. (2 * 2 * Cardinality(ChatIndexes) - 1)
ShapeRow(id, code) ==
    LET idx == (code \div 2) % Cardinality(ChatIndexes)
    IN Row(id, IF code \div (2 * Cardinality(ChatIndexes)) = 0 THEN "m1" ELSE "m2",
           idx, Cardinality(ChatIndexes),
           IF code % 2 = 1 THEN generateEmbedding(ChunkContent(idx)) ELSE Null)

\* the tables of up to k rows, ids given in the order of the shapes
ChatTables(k) ==
    UNION {{{ShapeRow(i, f[i]) : i \in 1 .. n} :
              f \in {g \in [1 .. n -> ShapeCodes] :
                       \A i \in 1 .. (n - 1) : g[i] <= g[i + 1]}} : n \in 0 .. k}

\* ingestion is over and has left some table behind
InitChat(k) ==
    /\ document_chunks \in ChatTables(k)
    /\ nextId = Cardinality(document_chunks) + 1
    /\ status = [d \in Manuals |-> "ready"]
    /\ inv = [p \in Procs |-> IdleInv]
    /\ stepComplete = [d \in Manuals |-> FALSE]
    /\ poll = IdlePoll
    /\ chat = IdleChat
    /\ client = IdleClient
    /\ embCall = IdleEmb
    /\ chunker = IdleChunker

StartChat == \E d \in Manuals, q \in Queries : ChatStart(d, q)

InitRetrieval == InitChat(MaxChatRows)
NextRetrieval == StartChat \/ ChatEmbed \/ ChatRpc
SpecRetrieval == InitRetrieval /\ [][NextRetrieval]_vars

----------------------------------------------------------------------------
(* chat: the request to the generation backend and the relay of its stream *)

\* rows of document_chunks, and lines of the backend's stream, in the
\* specification of the relay
MaxStreamRows == 1
MaxBackendLines == 2

\* the statuses the gateway answers with
BackendStatuses == {200, 429, 402, 500, 503}

\* the lines of the backend's event stream: a content delta of one or of two
\* characters, a delta without content (the role marker), the terminator, a
\* data line that is not JSON, and a comment line
DeltaLine(text) == [kind |-> "delta", content |-> text]
RoleLine == [kind |-> "role", content |-> <<>>]
DoneLine == [kind |-> "done", content |-> <<>>]
BadLine == [kind |-> "bad", content |-> <<>>]
CommentLine == [kind |-> "comment", content |-> <<>>]
BlankLine == [kind |-> "blank", content |-> <<>>]
BackendLines ==
    {DeltaLine(<<"a">>), DeltaLine(<<"b", "c">>), RoleLine, DoneLine, BadLine,
     CommentLine}

\* `data: ${JSON.stringify({ type: "page_images", pages })}` and its blank line
ImageLine(pages) == [kind |-> "page_images", content |-> pages]

\* a faulty variant: the status of the backend is handed on with a
\* generic body
GatewayErrorFaulty(st) == [http |-> st, body |-> "AI service temporarily unavailable"]

\* the body of the error Response for a backend status that is not ok
GatewayError(st) ==
    IF st = 429 THEN [http |-> 429, body |-> "Rate limit exceeded. Please wait a moment."]
    ELSE IF st = 402 THEN [http |-> 402, body |-> "Usage limit reached."]
    ELSE [http |-> 500, body |-> "AI service temporarily unavailable"]

\* the fetch of the completion: the gateway answers, or the fetch throws and
\* the outer catch answers 500 with the message of the error
ChatFetch ==
    /\ chat.pc = "fetch"
    /\ \/ \E st \in BackendStatuses :
            chat' = IF st = 200
                    THEN [chat EXCEPT !.pc = "relay", !.backendStatus = st,
                                      !.http = 200, !.stream = "open"]
                    ELSE [chat EXCEPT !.pc = "done", !.backendStatus = st,
                                      !.http = GatewayError(st).http,
                                      !.body = GatewayError(st).body]
       \/ chat' = [chat EXCEPT !.pc = "done", !.http = 500, !.body = "error.message"]
    /\ UNCHANGED <<ingestVars, client, embCall, chunker>>

\* what the relay writes for one line of the backend: a delta with content
\* becomes one record per character, each followed by a blank line; every
\* other line is written as it came
RelayLine(line) ==
    IF line.kind = "delta"
    THEN [i \in 1 .. (2 * Len(line.content)) |->
            IF i % 2 = 1 THEN DeltaLine(<<line.content[(i + 1) \div 2]>>)
            ELSE BlankLine]
    ELSE <<line>>

\* one line of the backend's stream is read and relayed, or the read fails
\* and the writer is aborted
ChatRelay(line) ==
    /\ chat.pc = "relay"
    /\ Len(chat.upstream) < MaxBackendLines
    /\ chat' = [chat EXCEPT !.upstream = Append(@, line),
                            !.out = @ \o RelayLine(line)]
    /\ UNCHANGED <<ingestVars, client, embCall, chunker>>

\* a faulty variant: the catch ends the stream the way a completed relay does
ChatAbortFaulty ==
    /\ chat.pc = "relay"
    /\ chat' = [chat EXCEPT !.pc = "done", !.stream = "aborted",
                            !.out = @ \o <<DoneLine, BlankLine>>]
    /\ UNCHANGED <<ingestVars, client, embCall, chunker>>

\* reader.read() rejects: the catch aborts the writer
ChatAbort ==
    /\ chat.pc = "relay"
    /\ chat' = [chat EXCEPT !.pc = "done", !.stream = "aborted"]
    /\ UNCHANGED <<ingestVars, client, embCall, chunker>>

\* a faulty variant: the event is written without looking at the list
ImageEventFaulty(pages) == <<ImageLine(pages), BlankLine>>

\* the page-image event, written when there are page images
ImageEvent(pages) ==
    IF Len(pages) > 0 THEN <<ImageLine(pages), BlankLine>> ELSE <<>>

\* the backend's stream is done: the page-image event, the terminator, close
ChatFinish ==
    /\ chat.pc = "relay"
    /\ chat' = [chat EXCEPT !.pc = "done", !.stream = "closed",
                            !.out = @ \o ImageEvent(chat.pageImageData)
                                      \o <<DoneLine, BlankLine>>]
    /\ UNCHANGED <<ingestVars, client, embCall, chunker>>

StepChatRelay == \E line \in BackendLines : ChatRelay(line)

InitStream == InitChat(MaxStreamRows)
NextStream ==
    \/ StartChat \/ ChatEmbed \/ ChatRpc \/ ChatFetch
    \/ StepChatRelay \/ ChatAbort \/ ChatFinish
SpecChat == InitStream /\ [][NextStream]_vars

----------------------------------------------------------------------------
(* The chat hook of the browser: sendMessage in its two versions, the one    *)
(* that shows page images ("images") and the one that reveals the answer     *)
(* character by character ("smooth").  The bytes of the response are         *)
(* characters of a small alphabet: a record is two characters, so that a     *)
(* read can end in the middle of a line and in the middle of a JSON object.  *)

\* lines of the response stream
MaxLines == 2

\* Smooth streaming config
BUFFER_THRESHOLD == 15

NL == "NL"

\* the texts of the two content deltas
TextA == [i \in 1 .. 15 |-> "a"]
TextB == [i \in 1 .. 2 |-> "b"]

\* the page-image record as the chat function writes it:
\* data: {"type":"page_images","pages":[{url, pageNumber}, ...]}
PagesLine == <<"s1", "s2">>

\* what that record carries
ServerPages == <<"page">>

\* the lines a server sends, without their line feed: two deltas, a
\* page-image record with an images array, the page-image record of the chat
\* function, the terminator, a delta cut in the middle of its JSON, and a
\* comment
ClientLines ==
    {<<"a1", "a2">>, <<"b1", "b2">>, <<"p1", "p2">>, PagesLine, <<"E1", "E2">>,
     <<"a1">>, <<"#">>}

\* the byte streams of up to k lines; the last line may lack its line feed
RECURSIVE Streams(_)
Streams(k) ==
    IF k = 0 THEN {<<>>}
    ELSE LET shorter == Streams(k - 1)
         IN shorter \cup {l \o <<NL>> \o t : l \in ClientLines, t \in shorter}
                    \cup {l : l \in ClientLines}

\* what the loop makes of a line: skipped (comment, blank, no data prefix),
\* the terminator, a parsed record, or a line JSON.parse throws on; a record
\* of type page_images counts as one when parsed.images is an array, and is
\* a record with neither images nor a delta otherwise
ParseLine(line) ==
    IF line = <<>> \/ line[1] = "#" THEN [kind |-> "skip", text |-> <<>>]
    ELSE IF line = <<"E1", "E2">> THEN [kind |-> "done", text |-> <<>>]
    ELSE IF line = <<"a1", "a2">> THEN [kind |-> "delta", text |-> TextA]
    ELSE IF line = <<"b1", "b2">> THEN [kind |-> "delta", text |-> TextB]
    ELSE IF line = <<"p1", "p2">> THEN [kind |-> "page_images", text |-> <<"img">>]
    ELSE IF line = PagesLine THEN [kind |-> "other", text |-> <<>>]
    ELSE [kind |-> "bad", text |-> <<>>]

\* textBuffer.indexOf("\n"), counted from 1; 0 when there is none
IndexOfNL(buf) ==
    IF \E i \in 1 .. Len(buf) : buf[i] = NL
    THEN CHOOSE i \in 1 .. Len(buf) :
           buf[i] = NL /\ \A j \in 1 .. (i - 1) : buf[j] # NL
    ELSE 0

Message(role, content) == [role |-> role, content |-> content, pageImages |-> <<>>]

\* prev.map(... i === prev.length - 1 ? { ...m, <field> } : m), or the append
\* of a new assistant message when the last message is not the assistant's
SetLastContent(msgs, content) ==
    IF Len(msgs) > 0 /\ msgs[Len(msgs)].role = "assistant"
    THEN [msgs EXCEPT ![Len(msgs)].content = content]
    ELSE Append(msgs, Message("assistant", content))

SetLastImages(msgs, images) ==
    IF Len(msgs) > 0 /\ msgs[Len(msgs)].role = "assistant"
    THEN [msgs EXCEPT ![Len(msgs)].pageImages = images]
    ELSE msgs

\* updateDisplay
updateDisplay(c) ==
    [c EXCEPT !.messages = SetLastContent(@, c.displayedContent)]

\* a faulty variant: a tick shows everything that is pending
animateNextCharFaulty(c) ==
    IF Len(c.displayedContent) < Len(c.pendingContent)
    THEN updateDisplay([c EXCEPT !.displayedContent = c.pendingContent,
                                 !.timer = TRUE])
    ELSE [c EXCEPT !.isAnimating = FALSE, !.timer = FALSE]

\* animateNextChar: one more character is shown and the timer is set again,
\* or the animation stops
animateNextChar(c) ==
    IF Len(c.displayedContent) < Len(c.pendingContent)
    THEN updateDisplay([c EXCEPT
           !.displayedContent = SubSeq(c.pendingContent, 1, Len(c.displayedContent) + 1),
           !.timer = TRUE])
    ELSE [c EXCEPT !.isAnimating = FALSE, !.timer = FALSE]

\* startAnimation
startAnimation(c) ==
    IF ~c.isAnimating /\ Len(c.pendingContent) > Len(c.displayedContent)
    THEN animateNextChar([c EXCEPT !.isAnimating = TRUE])
    ELSE c

\* history: the terminator has been read; what the turn had shown by then
SawDone(c) ==
    IF c.sawDone THEN c
    ELSE [c EXCEPT !.sawDone = TRUE,
                   !.atDone = [content |-> IF c.variant = "images"
                                           THEN c.assistantContent
                                           ELSE c.pendingContent,
                               pageImages |-> c.pageImages]]

\* a parsed record inside the read loop
LoopRecord(c, rec) ==
    IF c.variant = "images"
    THEN IF rec.kind = "page_images"
         THEN [c EXCEPT !.pageImages = rec.text,
                        !.messages = SetLastImages(@, rec.text)]
         ELSE LET content == c.assistantContent \o rec.text
              IN [c EXCEPT !.assistantContent = content,
                           !.messages = SetLastContent(@, content)]
    ELSE IF rec.kind = "page_images" THEN c
         ELSE LET d == [c EXCEPT !.pendingContent = @ \o rec.text]
              IN IF ~d.hasStartedAnimation /\ Len(d.pendingContent) >= BUFFER_THRESHOLD
                 THEN startAnimation([d EXCEPT !.hasStartedAnimation = TRUE])
                 ELSE IF d.hasStartedAnimation THEN startAnimation(d)
                 ELSE d

\* the inner loop: while the buffer holds a line feed, take the line off the
\* buffer and handle it; a line that does not parse goes back on the buffer
\* and ends the loop; the terminator ends the loop in the smooth version
RECURSIVE Drain(_)
Drain(c) ==
    LET n == IndexOfNL(c.textBuffer)
    IN IF n = 0 THEN c
       ELSE LET line == SubSeq(c.textBuffer, 1, n - 1)
                rest == SubSeq(c.textBuffer, n + 1, Len(c.textBuffer))
                rec  == ParseLine(line)
                d    == [c EXCEPT !.textBuffer = rest]
            IN IF rec.kind \in {"skip", "other"} THEN Drain(d)
               ELSE IF rec.kind = "done"
                    THEN IF c.variant = "images" THEN Drain(SawDone(d))
                         ELSE SawDone(d)
               ELSE IF rec.kind = "bad"
                    THEN [c EXCEPT !.rebuffered = @ \/ line = <<"E1", "E2">>]
               ELSE Drain(LoopRecord(d, rec))

\* textBuffer.split("\n")
RECURSIVE Split(_)
Split(buf) ==
    LET n == IndexOfNL(buf)
    IN IF n = 0 THEN <<buf>>
       ELSE <<SubSeq(buf, 1, n - 1)>> \o Split(SubSeq(buf, n + 1, Len(buf)))

\* the pass over what is left in the buffer when the stream has ended:
\* nothing is shown yet, lines that do not parse are ignored
RECURSIVE Remaining(_, _)
Remaining(c, raws) ==
    IF raws = <<>> THEN c
    ELSE LET rec == ParseLine(Head(raws))
             d == IF rec.kind = "done" THEN SawDone(c)
                  ELSE IF rec.kind = "page_images"
                       THEN IF c.variant = "images"
                            THEN [c EXCEPT !.pageImages = rec.text]
                            ELSE c
                  ELSE IF rec.kind = "delta"
                       THEN IF c.variant = "images"
                            THEN [c EXCEPT !.assistantContent = @ \o rec.text]
                            ELSE [c EXCEPT !.pendingContent = @ \o rec.text]
                  ELSE c
         IN Remaining(d, Tail(raws))

\* the end of the stream: the remaining buffer, then the final update
\* (images) or the start of the animation if it has not started (smooth)
EndOfStream(c) ==
    LET d == [Remaining(c, Split(c.textBuffer)) EXCEPT !.textBuffer = <<>>]
    IN IF c.variant = "images"
       THEN [d EXCEPT !.pc = "done",
                      !.messages =
                          IF d.assistantContent # <<>>
                          THEN SetLastImages(SetLastContent(@, d.assistantContent),
                                             d.pageImages)
                          ELSE @]
       ELSE [(IF Len(d.pendingContent) > 0 /\ ~d.hasStartedAnimation
              THEN startAnimation(d) ELSE d) EXCEPT !.pc = "wait"]

\* a faulty variant: the last message goes whatever it is
RollbackFaulty(msgs) ==
    IF Len(msgs) > 0 THEN SubSeq(msgs, 1, Len(msgs) - 1) ELSE msgs

\* the catch block: the last message goes if it is the assistant's
Rollback(msgs) ==
    IF Len(msgs) > 0 /\ msgs[Len(msgs)].role = "assistant"
    THEN SubSeq(msgs, 1, Len(msgs) - 1)
    ELSE msgs

\* catch: the timer is cleared (smooth), the transcript rolled back
Fail(c) ==
    [c EXCEPT !.pc = "failed", !.timer = FALSE,
              !.shown = Len(c.messages) > 0 /\ c.messages[Len(c.messages)].role = "assistant"
                          /\ c.messages[Len(c.messages)].content # <<>>,
              !.messages = Rollback(@)]

\* the transcripts a turn may start from
Transcripts == {<<>>, <<Message("user", <<"q0">>), Message("assistant", <<"old">>)>>}

\* the turn as sendMessage sets it up: the user's message is added, and in
\* the images version the empty assistant placeholder
NewTurn(variant, before, bytes) ==
    [pc |-> "fetch", variant |-> variant, before |-> before, bytes |-> bytes,
     pos |-> 0, cut |-> FALSE,
     messages |-> before \o <<Message("user", <<"q">>)>> \o
                  (IF variant = "images" THEN <<Message("assistant", <<>>)>>
                   ELSE <<>>),
     textBuffer |-> <<>>, assistantContent |-> <<>>, pageImages |-> <<>>,
     pendingContent |-> <<>>, displayedContent |-> <<>>,
     hasStartedAnimation |-> FALSE, isAnimating |-> FALSE, timer |-> FALSE,
     sawDone |-> FALSE, atDone |-> [content |-> <<>>, pageImages |-> <<>>],
     rebuffered |-> FALSE, shown |-> FALSE, cleared |-> FALSE]

\* sendMessage up to the fetch
ClientSend(variant, before, bytes) ==
    /\ client.pc = "idle"
    /\ client' = NewTurn(variant, before, bytes)
    /\ UNCHANGED <<ingestVars, chat, embCall, chunker>>

\* history: the read ends between the two halves of a JSON record
MidJson(bytes, pos) ==
    /\ pos >= 1 /\ pos < Len(bytes)
    /\ <<bytes[pos], bytes[pos + 1]>> \in
         {<<"a1", "a2">>, <<"b1", "b2">>, <<"p1", "p2">>, PagesLine}

\* a faulty variant: the bytes of the read replace the buffer
ReceivedFaulty(c, k) ==
    [c EXCEPT !.pos = @ + k,
              !.cut = @ \/ MidJson(c.bytes, c.pos + k),
              !.textBuffer = SubSeq(c.bytes, c.pos + 1, c.pos + k)]

\* the bytes of the next k-byte read go on the buffer
Received(c, k) ==
    [c EXCEPT !.pos = @ + k,
              !.cut = @ \/ MidJson(c.bytes, c.pos + k),
              !.textBuffer = @ \o SubSeq(c.bytes, c.pos + 1, c.pos + k)]

\* the fetch returns: a stream to read, a response that is not ok, or a
\* response without body
ClientResponse ==
    /\ client.pc = "fetch"
    /\ \/ client' = [client EXCEPT !.pc = "read"]
       \/ client' = Fail(client)
    /\ UNCHANGED <<ingestVars, chat, embCall, chunker>>

\* reader.read() returns the next k bytes; the inner loop runs over the buffer
ClientRead(k) ==
    /\ client.pc = "read"
    /\ client.pos + k <= Len(client.bytes)
    /\ client' = Drain(Received(client, k))
    /\ UNCHANGED <<ingestVars, chat, embCall, chunker>>

\* reader.read() rejects
ClientReadError ==
    /\ client.pc = "read"
    /\ client' = Fail(client)
    /\ UNCHANGED <<ingestVars, chat, embCall, chunker>>

\* reader.read() returns done
ClientEnd ==
    /\ client.pc = "read"
    /\ client.pos = Len(client.bytes)
    /\ client' = EndOfStream(client)
    /\ UNCHANGED <<ingestVars, chat, embCall, chunker>>

\* the timer of the animation fires
AnimateTick ==
    /\ client.pc \in {"read", "wait"}
    /\ client.timer
    /\ client' = animateNextChar(client)
    /\ UNCHANGED <<ingestVars, chat, embCall, chunker>>

\* waitForAnimation finds everything shown
ClientWaited ==
    /\ client.pc = "wait"
    /\ Len(client.displayedContent) >= Len(client.pendingContent)
    /\ client' = [client EXCEPT !.pc = "done"]
    /\ UNCHANGED <<ingestVars, chat, embCall, chunker>>

StartClient ==
    \E variant \in {"images", "smooth"}, before \in Transcripts,
       bytes \in Streams(MaxLines) : ClientSend(variant, before, bytes)
StepClientRead == \E k \in 1 .. (3 * MaxLines) : ClientRead(k)

NextClient ==
    \/ StartClient \/ ClientResponse \/ StepClientRead \/ ClientReadError
    \/ ClientEnd \/ AnimateTick \/ ClientWaited
SpecClient == Init /\ [][NextClient]_vars

\* the stream is read, the timers fire and the poll of waitForAnimation runs
SpecClientFair ==
    /\ SpecClient
    /\ WF_vars(StepClientRead) /\ WF_vars(ClientEnd)
    /\ WF_vars(AnimateTick) /\ WF_vars(ClientWaited)

\* clearMessages while the turn is in flight ("new chat", or another manual
\* selected): the transcript is emptied, and in the smooth version the two
\* content refs and the timer are reset; the reader is left alone
ClientClear ==
    /\ client.pc \in {"fetch", "read", "wait"}
    /\ ~client.cleared
    /\ client' = IF client.variant = "images"
                 THEN [client EXCEPT !.messages = <<>>, !.cleared = TRUE]
                 ELSE [client EXCEPT !.messages = <<>>, !.cleared = TRUE,
                                     !.displayedContent = <<>>, !.pendingContent = <<>>,
                                     !.timer = FALSE, !.isAnimating = FALSE]
    /\ UNCHANGED <<ingestVars, chat, embCall, chunker>>

NextAbandon == NextClient \/ ClientClear
SpecAbandon == Init /\ [][NextAbandon]_vars

----------------------------------------------------------------------------
(* The embedding client: generateEmbedding of ingest-pdf (server-driven),   *)
(* which retries ("retrying"), and generateEmbedding of process-embeddings,  *)
(* which calls the oracle once ("single").                                   *)

\* retries = 3
retries == 3

\* what the oracle answers a call with: a status, or 0 when fetch rejects
OracleAnswers == {200, 429, 500, 503, 0}

EmbTexts == {ChunkContent(0), ChunkContent(1)}

\* Math.pow(2, attempt) * 1000
RateLimitWait(attempt) == (2 ^ attempt) * 1000

\* 1000 * attempt
ErrorWait(attempt) == 1000 * attempt

\* generateEmbedding is called: the first request goes to the oracle
EmbStart(variant, text) ==
    /\ embCall.pc = "idle"
    /\ embCall' = [pc |-> "call", variant |-> variant, text |-> text, attempt |-> 1,
               answers |-> <<>>, waits |-> <<>>]
    /\ UNCHANGED <<ingestVars, chat, client, chunker>>

\* the state of the retrying client after the answer a of the attempt
AfterAnswer(e, a) ==
    LET f == [e EXCEPT !.answers = Append(@, a)]
    IN IF a = 429
       THEN [f EXCEPT !.pc = "wait",
                      !.waits = Append(@, [after |-> a, ms |-> RateLimitWait(e.attempt)])]
       ELSE IF a = 200 THEN [f EXCEPT !.pc = "returned"]
       ELSE IF e.attempt = retries THEN [f EXCEPT !.pc = "thrown"]
       ELSE [f EXCEPT !.pc = "wait",
                      !.waits = Append(@, [after |-> a, ms |-> ErrorWait(e.attempt)])]

\* the oracle answers the request
EmbAnswer(a) ==
    /\ embCall.pc = "call"
    /\ embCall' = IF embCall.variant = "retrying" THEN AfterAnswer(embCall, a)
              ELSE [embCall EXCEPT !.answers = Append(@, a),
                               !.pc = IF a = 200 THEN "returned" ELSE "thrown"]
    /\ UNCHANGED <<ingestVars, chat, client, chunker>>

\* the setTimeout of the retrying client fires: the next attempt, or the
\* throw after the loop when there is none
EmbWaited ==
    /\ embCall.pc = "wait"
    /\ embCall' = IF embCall.attempt < retries
              THEN [embCall EXCEPT !.pc = "call", !.attempt = @ + 1]
              ELSE [embCall EXCEPT !.pc = "thrown"]
    /\ UNCHANGED <<ingestVars, chat, client, chunker>>

StartEmb == \E variant \in {"retrying", "single"}, text \in EmbTexts : EmbStart(variant, text)
StepEmbAnswer == \E a \in OracleAnswers : EmbAnswer(a)
NextEmbedding == StartEmb \/ StepEmbAnswer \/ EmbWaited
SpecEmbedding == Init /\ [][NextEmbedding]_vars

----------------------------------------------------------------------------
(* The chunker: the structure-aware chunkText of ingest-pdf and of the       *)
(* admin page.  A text is a sequence of characters, the input is given as    *)
(* its lines (text.split("\n")), and one step of the loop is one action.     *)

\* lines of an input text
MaxTextLines == 3

\* currentChunk.length > 100
MinFlushLength == 100

\* currentChunk.trim().length > 50
MinChunkLength == 50

LF == "\n"

Rep(c, n) == [i \in 1 .. n |-> c]

Lowest(S) == CHOOSE i \in S : \A j \in S : i <= j
Highest(S) == CHOOSE i \in S : \A j \in S : i >= j

\* white space, as trim() and \s see it
IsSpace(c) == c \in {" ", "\t", LF}

IsDigit(c) == c \in {"0", "1", "2", "3", "4", "5", "6", "7", "8", "9"}

Uppers == <<"A", "B", "C", "D", "E", "F", "G", "H", "I", "J", "K", "L", "M",
            "N", "O", "P", "Q", "R", "S", "T", "U", "V", "W", "X", "Y", "Z">>
Lowers == <<"a", "b", "c", "d", "e", "f", "g", "h", "i", "j", "k", "l", "m",
            "n", "o", "p", "q", "r", "s", "t", "u", "v", "w", "x", "y", "z">>

\* the lower-case form of a character (the i flag of the pattern)
Lower(c) ==
    IF \E i \in 1 .. 26 : Uppers[i] = c
    THEN Lowers[CHOOSE i \in 1 .. 26 : Uppers[i] = c]
    ELSE c

IsLetter(c) == \E i \in 1 .. 26 : Lowers[i] = Lower(c)

\* String.prototype.trim
Trim(str) ==
    LET keep == {i \in 1 .. Len(str) : ~IsSpace(str[i])}
    IN IF keep = {} THEN <<>> ELSE SubSeq(str, Lowest(keep), Highest(keep))

\* str.slice(from), from counted from 0
StrSlice(str, from) == SubSeq(str, from + 1, Len(str))

\* str.lastIndexOf(pat), counted from 0; -1 when pat does not occur
LastIndexOf(str, pat) ==
    LET at == {i \in 1 .. (Len(str) - Len(pat) + 1) :
                 SubSeq(str, i, i + Len(pat) - 1) = pat}
    IN IF at = {} THEN -1 ELSE Highest(at) - 1

\* the line starts with the word, whatever the case, followed by white space
WordThenSpace(line, word) ==
    /\ Len(line) > Len(word)
    /\ \A i \in 1 .. Len(word) : Lower(line[i]) = word[i]
    /\ IsSpace(line[Len(word) + 1])

\* sectionMarkers.test(line):
\* /^(#{1,6}\s|Section\s|Page\s|\d+\.\d+|\*\*|Rule\s|[A-Z]{1,3}\d+)/i
sectionMarkers(line) ==
    \/ \E n \in 1 .. 6 :
         /\ Len(line) > n
         /\ \A i \in 1 .. n : line[i] = "#"
         /\ IsSpace(line[n + 1])
    \/ WordThenSpace(line, <<"s", "e", "c", "t", "i", "o", "n">>)
    \/ WordThenSpace(line, <<"p", "a", "g", "e">>)
    \/ WordThenSpace(line, <<"r", "u", "l", "e">>)
    \/ \E n \in 1 .. Len(line) :
         /\ Len(line) >= n + 2
         /\ \A i \in 1 .. n : IsDigit(line[i])
         /\ line[n + 1] = "." /\ IsDigit(line[n + 2])
    \/ Len(line) >= 2 /\ line[1] = "*" /\ line[2] = "*"
    \/ \E n \in 1 .. 3 :
         /\ Len(line) > n
         /\ \A i \in 1 .. n : IsLetter(line[i])
         /\ IsDigit(line[n + 1])

\* a faulty variant: the line is appended without a line feed
potentialChunkFaulty(currentChunk, line) == currentChunk \o line

\* currentChunk + (currentChunk ? "\n" : "") + line
potentialChunk(currentChunk, line) ==
    currentChunk \o (IF currentChunk # <<>> THEN <<LF>> ELSE <<>>) \o line

\* a faulty variant: the buffer is flushed as soon as it is long enough
ShouldFlushFaulty(currentChunk, line, chunkSize) ==
    Len(currentChunk) > MinFlushLength

\* potentialChunk.length > chunkSize && currentChunk.length > 100
ShouldFlush(currentChunk, line, chunkSize) ==
    /\ Len(potentialChunk(currentChunk, line)) > chunkSize
    /\ Len(currentChunk) > MinFlushLength

\* currentChunk.slice(Math.max(0, currentChunk.length - overlap))
lastOverlap(currentChunk, overlap) ==
    StrSlice(currentChunk, IF Len(currentChunk) - overlap > 0
                           THEN Len(currentChunk) - overlap ELSE 0)

\* Math.max(lastPeriod, lastNewline)
breakPoint(window) ==
    LET lastPeriod == LastIndexOf(window, <<".", " ">>)
        lastNewline == LastIndexOf(window, <<LF>>)
    IN IF lastPeriod > lastNewline THEN lastPeriod ELSE lastNewline

\* a faulty variant: the overlap is carried whatever the line is
NextBufferFaulty(currentChunk, line, overlap) ==
    LET window == lastOverlap(currentChunk, overlap)
    IN IF breakPoint(window) > 0
       THEN Trim(StrSlice(window, breakPoint(window) + 1)) \o <<LF>> \o line
       ELSE line

\* the buffer after a flush: the line alone when it is a structural marker
\* or when the overlap window has no break past its first character, else
\* the trimmed part of the window behind the break, a line feed and the line
NextBuffer(currentChunk, line, overlap) ==
    LET window == lastOverlap(currentChunk, overlap)
    IN IF sectionMarkers(line) THEN line
       ELSE IF breakPoint(window) > 0
            THEN Trim(StrSlice(window, breakPoint(window) + 1)) \o <<LF>> \o line
            ELSE line

\* the lines the input texts are made of: a heading, a plain line, a line
\* with a sentence end, an empty line, a line longer than the chunk size and
\* a line of blanks
MarkerLine == <<"S", "e", "c", "t", "i", "o", "n", " ", "2">>
PlainLine == Rep("x", 110)
SentenceLine == Rep("y", 80) \o <<".", " ">> \o Rep("z", 28)
EmptyLine == <<>>
LongLine == Rep("w", 160)
BlankLine60 == Rep(" ", 60)
ChunkerLines == {MarkerLine, PlainLine, SentenceLine, EmptyLine, LongLine, BlankLine60}

\* the texts of up to k lines
RECURSIVE Texts(_)
Texts(k) ==
    IF k = 0 THEN {<<>>}
    ELSE LET shorter == Texts(k - 1)
         IN shorter \cup {<<l>> \o t : l \in ChunkerLines, t \in shorter}

\* chunkSize and overlap of a run
ChunkerParams == {<<115, 20>>, <<115, 70>>, <<150, 0>>}

\* the four lines "Section 1", a line of 1400 characters, "Section 2" and
\* "more text", chunked with chunkSize 1500 and overlap 200
FooBarBaz == <<"f", "o", "o", " ", "b", "a", "r", " ", "b", "a", "z">>
Scenario ==
    << <<"S", "e", "c", "t", "i", "o", "n", " ", "1">>,
       [i \in 1 .. 1400 |-> FooBarBaz[((i - 1) % 11) + 1]],
       MarkerLine,
       <<"m", "o", "r", "e", " ", "t", "e", "x", "t">> >>
ScenarioParams == <<1500, 200>>

\* chunkText is called
ChunkStart(lines, chunkSize, overlap) ==
    /\ chunker.pc = "idle"
    /\ chunker' = [pc |-> "loop", lines |-> lines, chunkSize |-> chunkSize,
                   overlap |-> overlap, i |-> 1, currentChunk |-> <<>>,
                   chunks |-> <<>>,
                   \* history: for the buffer, the line it began with, the
                   \* buffer it began as, the buffer flushed before it
                   from |-> 1, began |-> <<>>, flushed |-> <<>>, kind |-> "first",
                   \* history: the same for every emitted chunk
                   hist |-> <<>>, dropped |-> FALSE]
    /\ UNCHANGED <<ingestVars, chat, client, embCall>>

\* history: what is known of the buffer that becomes a chunk
Emitted(c, to) ==
    [from |-> c.from, to |-> to, began |-> c.began, flushed |-> c.flushed,
     kind |-> c.kind, raw |-> c.currentChunk]

\* one turn of the loop over the lines
ChunkLine ==
    /\ chunker.pc = "loop"
    /\ chunker.i <= Len(chunker.lines)
    /\ LET line == chunker.lines[chunker.i]
           cur == chunker.currentChunk
       IN chunker' =
            IF ShouldFlush(cur, line, chunker.chunkSize)
            THEN LET next == NextBuffer(cur, line, chunker.overlap)
                 IN [chunker EXCEPT
                       !.chunks = Append(@, Trim(cur)),
                       !.hist = Append(@, Emitted(chunker, chunker.i - 1)),
                       !.currentChunk = next,
                       !.from = chunker.i, !.began = next, !.flushed = cur,
                       !.kind = IF sectionMarkers(line) THEN "marker" ELSE "overlap",
                       !.i = @ + 1]
            ELSE [chunker EXCEPT !.currentChunk = potentialChunk(cur, line),
                                 !.began = IF chunker.i = 1 THEN line ELSE @,
                                 !.i = @ + 1]
    /\ UNCHANGED <<ingestVars, chat, client, embCall>>

\* after the loop: the remaining buffer is emitted if it is long enough
ChunkFinish ==
    /\ chunker.pc = "loop"
    /\ chunker.i > Len(chunker.lines)
    /\ chunker' =
         IF Len(Trim(chunker.currentChunk)) > MinChunkLength
         THEN [chunker EXCEPT !.pc = "done",
                 !.chunks = Append(@, Trim(chunker.currentChunk)),
                 !.hist = Append(@, Emitted(chunker, Len(chunker.lines)))]
         ELSE [chunker EXCEPT !.pc = "done", !.dropped = TRUE]
    /\ UNCHANGED <<ingestVars, chat, client, embCall>>

StartChunker ==
    \/ \E lines \in Texts(MaxTextLines), p \in ChunkerParams :
         ChunkStart(lines, p[1], p[2])
    \/ ChunkStart(Scenario, ScenarioParams[1], ScenarioParams[2])
NextChunker == StartChunker \/ ChunkLine \/ ChunkFinish
SpecChunker == Init /\ [][NextChunker]_vars

----------------------------------------------------------------------------
(* The fixed-window chunkText of the knowledge ingest page ("paragraph":     *)
(* it looks for a blank line) and of ingest-pdf, server-driven ("line": it   *)
(* looks for a line feed).  One turn of the while loop is one action.        *)

\* pieces an input text is put together from
MaxWindowPieces == 3

WindowPieces == {<<"x">>, <<"x", "x", "x">>, <<".", " ">>, <<LF>>}

\* the texts of up to k pieces
RECURSIVE WindowTexts(_)
WindowTexts(k) ==
    IF k = 0 THEN {<<>>}
    ELSE LET shorter == WindowTexts(k - 1)
         IN shorter \cup {piece \o t : piece \in WindowPieces, t \in shorter}

\* chunkSize and overlap; the overlap may reach or exceed chunkSize
WindowSizes == {1, 3, 5}
WindowOverlaps == {0, 2, 5}

\* text.slice(start, end), both counted from 0
Slice2(str, start, end) == SubSeq(str, start + 1, end)

\* the window of a turn: up to chunkSize characters from start, cut behind
\* the last sentence end or paragraph/line break when that lies past half
\* of chunkSize and the text goes on behind the window
WindowChunk(text, start, chunkSize, variant) ==
    LET end == Min(start + chunkSize, Len(text))
        chunk == Slice2(text, start, end)
        lastPeriod == LastIndexOf(chunk, <<".", " ">>)
        lastNewline == LastIndexOf(chunk, IF variant = "paragraph"
                                          THEN <<LF, LF>> ELSE <<LF>>)
        bp == IF lastPeriod > lastNewline THEN lastPeriod ELSE lastNewline
    IN IF end < Len(text) /\ 2 * bp > chunkSize
       THEN Slice2(text, start, start + bp + 1)
       ELSE chunk

\* a faulty variant: the overlap is always taken off
WindowStepSizeFaulty(length, overlap) == length - overlap

\* chunk.length > overlap ? chunk.length - overlap : chunk.length
WindowStepSize(length, overlap) ==
    IF length > overlap THEN length - overlap ELSE length

\* chunkText is called
WindowStart(text, chunkSize, overlap, variant) ==
    /\ chunker.pc = "idle"
    /\ chunker' = [pc |-> IF 0 < Len(text) THEN "window" ELSE "returned",
                   variant |-> variant, text |-> text, chunkSize |-> chunkSize,
                   overlap |-> overlap, start |-> 0, chunks |-> <<>>,
                   \* history: start and length of the window of every turn
                   windows |-> <<>>]
    /\ UNCHANGED <<ingestVars, chat, client, embCall>>

\* one turn of the while loop
WindowStep ==
    /\ chunker.pc = "window"
    /\ LET chunk == WindowChunk(chunker.text, chunker.start, chunker.chunkSize,
                                chunker.variant)
           next == chunker.start + WindowStepSize(Len(chunk), chunker.overlap)
       IN chunker' = [chunker EXCEPT
            !.chunks = IF Len(Trim(chunk)) > MinChunkLength
                       THEN Append(@, Trim(chunk)) ELSE @,
            !.windows = Append(@, [start |-> chunker.start, length |-> Len(chunk)]),
            !.start = next,
            !.pc = IF next >= Len(chunker.text) THEN "returned" ELSE "window"]
    /\ UNCHANGED <<ingestVars, chat, client, embCall>>

StartWindow ==
    \E text \in WindowTexts(MaxWindowPieces), chunkSize \in WindowSizes,
       overlap \in WindowOverlaps, variant \in {"paragraph", "line"} :
        WindowStart(text, chunkSize, overlap, variant)
NextWindow == StartWindow \/ WindowStep
SpecWindow == Init /\ [][NextWindow]_vars

----------------------------------------------------------------------------
(* chat: the relay read by read.  ChatRelay above is a read that brings      *)
(* exactly one whole line with its line feed; here a read brings any run of  *)
(* the backend's bytes and the relay keeps what is behind the last line feed *)
(* in its buffer.                                                            *)

\* the bytes of a line come in two halves, so that a read may end inside it
Half(line, h) == [line |-> line, half |-> h]
LineFeed == [line |-> BlankLine, half |-> 0]
Encoded(line) == <<Half(line, 1), Half(line, 2)>>

\* the byte streams of up to k lines; the last line may lack its line feed
RECURSIVE TerminatedStreams(_)
TerminatedStreams(k) ==
    IF k = 0 THEN {<<>>}
    ELSE LET shorter == TerminatedStreams(k - 1)
         IN shorter \cup {Encoded(line) \o <<LineFeed>> \o s :
                            line \in BackendLines, s \in shorter}
BackendStreams(k) ==
    TerminatedStreams(k) \cup
    {s \o Encoded(line) : s \in TerminatedStreams(k - 1), line \in BackendLines}

\* what a run of bytes without a line feed is as a line
ParseBackend(run) ==
    IF run = <<>> THEN BlankLine
    ELSE IF \E line \in BackendLines : run = Encoded(line)
    THEN (CHOOSE line \in BackendLines : run = Encoded(line))
    ELSE BadLine

\* buffer.indexOf("\n"), counted from 1; 0 when there is none
IndexOfLineFeed(buf) ==
    IF \E i \in 1 .. Len(buf) : buf[i] = LineFeed
    THEN CHOOSE i \in 1 .. Len(buf) :
            buf[i] = LineFeed /\ \A j \in 1 .. (i - 1) : buf[j] # LineFeed
    ELSE 0

\* while ((newlineIndex = buffer.indexOf("\n")) !== -1): every whole line of
\* the buffer is relayed, the rest stays
RECURSIVE RelayBuffer(_, _)
RelayBuffer(buf, out) ==
    LET n == IndexOfLineFeed(buf)
    IN IF n = 0 THEN [buffer |-> buf, out |-> out]
       ELSE RelayBuffer(SubSeq(buf, n + 1, Len(buf)),
                        out \o RelayLine(ParseBackend(SubSeq(buf, 1, n - 1))))

\* reader.read() returns the next bytes of the backend's stream
ChatRead(piece) ==
    /\ chat.pc = "relay"
    /\ LET r == RelayBuffer(chat.buffer \o piece, chat.out)
       IN chat' = [chat EXCEPT !.bytes = @ \o piece, !.buffer = r.buffer,
                               !.out = r.out]
    /\ UNCHANGED <<ingestVars, client, embCall, chunker>>

StepChatRead ==
    /\ chat.pc = "relay"
    /\ \E s \in BackendStreams(MaxBackendLines), k \in 1 .. (3 * MaxBackendLines) :
        /\ Len(chat.bytes) < k
        /\ k <= Len(s)
        /\ SubSeq(s, 1, Len(chat.bytes)) = chat.bytes
        /\ ChatRead(SubSeq(s, Len(chat.bytes) + 1, k))

NextRelay ==
    \/ StartChat \/ ChatEmbed \/ ChatRpc \/ ChatFetch
    \/ StepChatRead \/ ChatAbort \/ ChatFinish
SpecRelay == InitStream /\ [][NextRelay]_vars

----------------------------------------------------------------------------
(* Properties *)

Answered(p) == inv[p].pc = "respond"
Succeeded(p) == Answered(p) /\ inv[p].resp.http = 200
Failed(p) == Answered(p) /\ inv[p].resp.http = 500
Ids(S) == {r.id : r \in S}
Last(w) == w[Len(w)]
Wrote(p, s) == \E k \in 1 .. Len(inv[p].wrote) : inv[p].wrote[k] = s

\* a whole ingestion run in one invocation: ingest-pdf, or an upload that
\* both clears first and finalizes
IsRun(p) ==
    \/ inv[p].kind \in {"pdf", "srv"}
    \/ inv[p].kind = "up" /\ inv[p].clearFirst /\ inv[p].finalize

\* C1: when an ingestion run on a manual that already had chunks has
\* answered with success, the rows of the manual are exactly the rows the
\* run inserted, and no two of them have the same chunk_index.
C1_RunReplacesChunks ==
    \A p \in Procs :
        (Succeeded(p) /\ IsRun(p) /\ inv[p].hadChunks) =>
            /\ Ids(ChunksOf(inv[p].doc)) = inv[p].ins
            /\ \A r1, r2 \in ChunksOf(inv[p].doc) :
                 r1.chunk_index = r2.chunk_index => r1 = r2

\* C2: in every reachable state a manual whose status is ready has no chunk
\* with a null embedding.
C2_ReadyHasNoNullEmbedding ==
    \A d \in Manuals : status[d] = "ready" => NullChunksOf(d) = {}

\* C3: an embedding step that arrives after a step has answered
\* complete=true, with no chunk inserted in between, changes no embedding
\* and answers with remaining = 0.
C3_StepIdempotentOnceComplete ==
    [][\A p \in Procs :
         (inv'[p].kind = "pe" /\ inv'[p].wasComplete) =>
            /\ \A r \in document_chunks : \E r2 \in document_chunks' :
                 r2.id = r.id /\ r2.embedding = r.embedding
            /\ (inv'[p].pc = "respond" /\ inv'[p].resp.http = 200)
                 => inv'[p].resp.remaining = 0]_vars

\* the position of a status in the lifecycle; processing is the name the
\* server-driven ingest-pdf gives to its working phase
StatusRank(s) ==
    CASE s = "pending" -> 0
      [] s \in {"extracting", "processing"} -> 1
      [] s = "chunking" -> 2
      [] s = "embedding" -> 3
      [] s = "ready" -> 4
      [] OTHER -> 5

LifecycleStatuses ==
    {"pending", "extracting", "chunking", "embedding", "ready", "error"}

\* C4 as stated: the status of a manual is one of pending, extracting,
\* chunking, embedding, ready, error, and every change of it moves forward
\* along pending, extracting, chunking, embedding, ready or goes to error.
C4_StatusOnlyForward ==
    [][\A d \in Manuals :
         /\ status'[d] \in LifecycleStatuses
         /\ status'[d] # status[d] =>
              \/ status'[d] = "error"
              \/ /\ status[d] # "error"
                 /\ StatusRank(status'[d]) > StatusRank(status[d])]_vars

\* C4: the status of a manual is one of the six lifecycle values or
\* processing, and the statuses one invocation writes move strictly forward
\* along the lifecycle, except that error may follow any of them and is then
\* the last one written.
C4_RunWritesForward ==
    /\ \A d \in Manuals : status[d] \in LifecycleStatuses \cup {"processing"}
    /\ \A p \in Procs : \A k \in 1 .. Len(inv[p].wrote) :
         /\ inv[p].wrote[k] \in LifecycleStatuses \cup {"processing"}
         /\ k > 1 =>
              /\ inv[p].wrote[k - 1] # "error"
              /\ \/ inv[p].wrote[k] = "error"
                 \/ StatusRank(inv[p].wrote[k]) > StatusRank(inv[p].wrote[k - 1])

\* a re-ingestion of a ready manual has gone through extracting to embedding
C4_Witness ==
    \E p \in Procs :
        /\ Succeeded(p) /\ inv[p].kind = "pdf" /\ inv[p].status0 = "ready"
        /\ inv[p].wrote = <<"extracting", "embedding">>
        /\ status[inv[p].doc] = "embedding"

\* C5 as stated: once the status of a manual is error, no step of any later
\* ingestion trigger, upload or embedding step changes it.
C5_ErrorAbsorbing ==
    [][\A d \in Manuals : status[d] = "error" => status'[d] = "error"]_vars

\* C5: error ends the invocation that writes it: it is the last status the
\* invocation writes, the invocation answers 500, and the manual is in error
\* when it answers.  A later invocation may move the manual out of error.
C5_ErrorEndsTheRun ==
    \A p \in Procs :
        Wrote(p, "error") =>
            /\ Failed(p)
            /\ Last(inv[p].wrote) = "error"
            /\ \A k \in 1 .. (Len(inv[p].wrote) - 1) : inv[p].wrote[k] # "error"
            /\ status[inv[p].doc] = "error"

\* a manual in error has been re-ingested and the run failed again, after
\* having set the status to its first phase
C5_Witness ==
    \E p \in Procs :
        /\ inv[p].status0 = "error" /\ Failed(p)
        /\ inv[p].wrote = <<"extracting", "error">>
        /\ status[inv[p].doc] = "error"

\* C6: every ingestion operation that answers with a failure for a manual
\* leaves the status of the manual at error.
C6_FailureSetsError ==
    \A p \in Procs :
        (Failed(p) /\ inv[p].doc \in Manuals) => status[inv[p].doc] = "error"

ErrorCap(kind) == IF kind = "srv" THEN PdfErrorCap ELSE KnowledgeErrorCap

\* C8: when a server-driven run over n chunks has answered, every chunk was
\* attempted, successCount + errorCount = n, the rows it inserted are the
\* successes, and the retained messages are the failures up to the cap
\* (5 in ingest-pdf, 10 in ingest-knowledge).
C8_TallyCoversEveryChunk ==
    \A p \in Procs :
        LET me == inv[p]
        IN (Succeeded(p) /\ me.kind \in {"srv", "kn"}) =>
              /\ me.i = me.n
              /\ me.successCount + me.errorCount = me.n
              /\ me.successCount = Cardinality(me.ins)
              /\ me.resp.processed = me.successCount
              /\ me.resp.errors = me.errorCount
              /\ me.errLen <= ErrorCap(me.kind)
              /\ me.errLen = Min(me.errorCount, ErrorCap(me.kind))

\* an ingest-pdf run with successes and more failures than the cap
C8_Witness ==
    \E p \in Procs :
        /\ Succeeded(p) /\ inv[p].kind = "srv"
        /\ inv[p].errorCount > PdfErrorCap /\ inv[p].successCount > 0
        /\ inv[p].errLen = PdfErrorCap

\* C9: under any interleaving of embedding steps for the same manual, a
\* non-null embedding is written into each chunk at most once.
C9_EmbeddedAtMostOnce ==
    \A r \in document_chunks : r.embedCount <= 1

\* C10: a step of an embedding-step invocation adds and deletes no row,
\* changes no id, manual_id, content, chunk_index or total_chunks, and
\* changes no row of another manual.
C10_EmbeddingStepFrame ==
    [][\A p \in Procs :
         (inv'[p].kind = "pe" /\ inv'[p] # inv[p]) =>
            /\ nextId' = nextId
            /\ Ids(document_chunks') = Ids(document_chunks)
            /\ Cardinality(document_chunks') = Cardinality(document_chunks)
            /\ \A r \in document_chunks : \E r2 \in document_chunks' :
                 /\ r2.id = r.id /\ r2.manual_id = r.manual_id
                 /\ r2.content = r.content
                 /\ r2.chunk_index = r.chunk_index
                 /\ r2.total_chunks = r.total_chunks
                 /\ r.manual_id # inv'[p].doc => r2 = r]_vars

\* a step has embedded a chunk while another manual has an unembedded one
C10_Witness ==
    \E p \in Procs :
        /\ inv[p].kind = "pe" /\ inv[p].successCount > 0
        /\ \E r \in document_chunks :
             r.manual_id # inv[p].doc /\ r.embedding = Null
        /\ \E r \in ChunksOf(inv[p].doc) : r.embedding # Null

\* the retrieval of the chat request is over
RetrievalDone == chat.pc = "fetch"

\* the sections of the grounding context
Sections == IF chat.retrieval.context = <<>> THEN <<>> ELSE Tail(chat.retrieval.context)

\* the chunks of manual d that a question may retrieve: embedded, and more
\* similar to it than the threshold
Above(d, q) ==
    {r \in ChunksOf(d) :
        r.embedding # Null /\ Similarity(generateEmbedding(q), r.embedding) > match_threshold}

\* C11: every chunk the retrieval returned is a row of the requested manual,
\* and every section of the grounding context is the content of such a row,
\* whatever rows of other manuals are stored.
C11_RetrievalStaysInManual ==
    RetrievalDone =>
        /\ \A i \in 1 .. Len(chat.rpc) :
             \E r \in ChunksOf(chat.manualId) :
                 r.id = chat.rpc[i].id /\ r.content = chat.rpc[i].content
        /\ Len(Sections) = Len(chat.rpc)
        /\ \A i \in 1 .. Len(Sections) : Sections[i].content = chat.rpc[i].content

\* chunks were returned while an embedded chunk of the other manual is more
\* similar to the question than the threshold
C11_Witness ==
    /\ RetrievalDone /\ Len(chat.rpc) > 0
    /\ \E d \in Manuals \ {chat.manualId} : Above(d, chat.query) # {}

\* C12 as stated: the returned chunks are in strictly descending similarity
\* order and section i of the context is the i-th returned chunk.
C12_StrictlyDescending ==
    RetrievalDone =>
        /\ \A i \in 1 .. (Len(chat.rpc) - 1) :
             chat.rpc[i].similarity > chat.rpc[i + 1].similarity
        /\ \A i \in 1 .. Len(Sections) :
             Sections[i].section = i /\ Sections[i].content = chat.rpc[i].content

\* C12: the returned chunks are in descending similarity order, chunks of
\* equal similarity in either order, and the sections of the context are
\* labelled 1..N, section i being the i-th returned chunk.
C12_DescendingAndLabelled ==
    RetrievalDone =>
        /\ \A i \in 1 .. (Len(chat.rpc) - 1) :
             chat.rpc[i].similarity >= chat.rpc[i + 1].similarity
        /\ Len(Sections) = Len(chat.rpc)
        /\ \A i \in 1 .. Len(Sections) :
             Sections[i].section = i /\ Sections[i].content = chat.rpc[i].content

\* three chunks were returned, of two different similarities
C12_Witness ==
    /\ RetrievalDone /\ Len(chat.rpc) = 3
    /\ chat.rpc[1].similarity > chat.rpc[3].similarity
    /\ Sections[3].section = 3

\* C13: when no embedded chunk of the requested manual is more similar to the
\* question than the threshold, the retrieval is empty: no context, no page
\* number, no page image, and the system prompt is the base prompt alone,
\* which holds the fallback instruction.
C13_NothingAboveThreshold ==
    (RetrievalDone /\ Above(chat.manualId, chat.query) = {}) =>
        /\ chat.retrieval = EmptyRetrieval
        /\ chat.retrieval.pageNumbers = <<>>
        /\ chat.pageImageData = <<>>
        /\ chat.systemPrompt = SYSTEM_PROMPT
        /\ "fallback" \in Range(chat.systemPrompt)

\* the rpc answered with no row although the manual has an embedded chunk,
\* whose similarity is exactly the threshold
C13_Witness ==
    /\ RetrievalDone /\ chat.rpcOk /\ chat.rpc = <<>>
    /\ \E r \in ChunksOf(chat.manualId) :
         /\ r.embedding # Null
         /\ Similarity(chat.queryEmbedding, r.embedding) = match_threshold
    /\ chat.systemPrompt = SYSTEM_PROMPT

\* the numbers of the page markers in the returned chunks
ReturnedMarkers ==
    UNION {Range(PageMarkers(chat.rpc[i].content)) : i \in 1 .. Len(chat.rpc)}

\* C14: the page numbers of a retrieval are strictly ascending (so without
\* duplicate), at most 10, and each is the number of a page marker in a
\* returned chunk; they are the smallest such numbers.
C14_PageNumbers ==
    RetrievalDone =>
        LET pn == chat.retrieval.pageNumbers
        IN /\ \A i \in 1 .. (Len(pn) - 1) : pn[i] < pn[i + 1]
           /\ Len(pn) <= 10
           /\ Range(pn) \subseteq ReturnedMarkers
           /\ Len(pn) = Min(10, Cardinality(ReturnedMarkers))
           /\ \A m \in ReturnedMarkers \ Range(pn) : \A i \in 1 .. Len(pn) : pn[i] < m

\* more than ten pages are marked in the returned chunks, one of them twice,
\* and the chunk with the larger numbers was returned first
C14_Witness ==
    /\ RetrievalDone /\ Len(chat.retrieval.pageNumbers) = 10
    /\ Cardinality(ReturnedMarkers) > 10
    /\ \E i, j \in 1 .. Len(chat.rpc) :
         /\ i < j
         /\ PageMarkers(chat.rpc[i].content) # <<>>
         /\ PageMarkers(chat.rpc[j].content) # <<>>
         /\ PageMarkers(chat.rpc[i].content)[1] >= PageMarkers(chat.rpc[j].content)[1]
         /\ Range(PageMarkers(chat.rpc[i].content))
              \cap Range(PageMarkers(chat.rpc[j].content)) # {}

\* the chat function has written and closed its stream
StreamCompleted == chat.pc = "done" /\ chat.stream = "closed"

\* the positions of the lines of a kind in the response stream
OutPositions(kind) == {i \in 1 .. Len(chat.out) : chat.out[i].kind = kind}

\* the positions of the records of the response stream: its data lines
OutRecords == {i \in 1 .. Len(chat.out) :
                 chat.out[i].kind \in {"delta", "role", "done", "bad", "page_images"}}

\* C15: a response stream that the chat function completed holds exactly one
\* page-image event when the retrieval resolved a page number and none when
\* it resolved none; the event carries the page images of the retrieval.
C15_OnePageImageEvent ==
    StreamCompleted =>
        /\ Cardinality(OutPositions("page_images")) =
             IF Len(chat.retrieval.pageNumbers) > 0 THEN 1 ELSE 0
        /\ \A i \in OutPositions("page_images") :
             /\ chat.out[i].content = chat.pageImageData
             /\ Len(chat.out[i].content) = Len(chat.retrieval.pageNumbers)

\* a stream with deltas and the event of two page images was completed
C15_Witness ==
    /\ StreamCompleted
    /\ Len(chat.retrieval.pageNumbers) = 2
    /\ OutPositions("delta") # {}
    /\ Cardinality(OutPositions("page_images")) = 1

\* C16: a response stream that the chat function completed holds exactly one
\* terminator record, which is its last record; the page-image event, when
\* there is one, comes after every delta record and before the terminator;
\* also when the stream of the backend ends with a terminator line.
C16_OneTerminatorLast ==
    StreamCompleted =>
        /\ Cardinality(OutPositions("done")) = 1
        /\ \A i \in OutPositions("done") : \A j \in OutRecords : j <= i
        /\ \A i \in OutPositions("page_images") :
             /\ \A j \in OutPositions("delta") : j < i
             /\ \A j \in OutPositions("done") : i < j

\* C17: when the backend answers 429 or 402 the chat function answers with
\* the same status and its own fixed message, any other status that is not ok
\* gives 500, and in all these cases no record of an event stream is written.
C17_GatewayErrors ==
    (chat.pc # "idle" /\ chat.backendStatus \notin {0, 200}) =>
        /\ chat.pc = "done"
        /\ chat.out = <<>> /\ chat.stream = "none"
        /\ chat.backendStatus = 429 =>
             /\ chat.http = 429
             /\ chat.body = "Rate limit exceeded. Please wait a moment."
        /\ chat.backendStatus = 402 =>
             chat.http = 402 /\ chat.body = "Usage limit reached."
        /\ chat.backendStatus \notin {429, 402} =>
             /\ chat.http = 500
             /\ chat.body = "AI service temporarily unavailable"

\* the backend answered 429 to a request whose retrieval had found pages
C17_Witness ==
    /\ chat.pc = "done" /\ chat.backendStatus = 429 /\ chat.http = 429
    /\ Len(chat.pageImageData) > 0

\* what a transcript shows of the turn's answer
Outcome(msgs) ==
    IF Len(msgs) > 0 /\ msgs[Len(msgs)].role = "assistant"
    THEN [content |-> msgs[Len(msgs)].content, pageImages |-> msgs[Len(msgs)].pageImages]
    ELSE [content |-> <<>>, pageImages |-> <<>>]

\* what the consumer has accumulated: the text and the page-image payload
Accumulated(c) ==
    [content |-> IF c.variant = "images" THEN c.assistantContent ELSE c.pendingContent,
     pageImages |-> c.pageImages]

\* the animation run to its end
RECURSIVE Reveal(_)
Reveal(c) ==
    IF c.timer /\ Len(c.displayedContent) < Len(c.pendingContent)
    THEN Reveal(animateNextChar(c))
    ELSE c

\* the turn when the whole byte sequence arrives in one read
OneRead(variant, before, bytes) ==
    LET c == [NewTurn(variant, before, bytes) EXCEPT !.pc = "read"]
    IN Reveal(EndOfStream(IF bytes = <<>> THEN c ELSE Drain(Received(c, Len(bytes)))))

\* C18: whatever the split of the byte sequence across reads, the consumer
\* has accumulated at the end of the stream, and a turn that ends shows, the
\* assistant content and the page images that the same bytes give when they
\* arrive in a single read
C18_SplitInvariant ==
    LET whole == OneRead(client.variant, client.before, client.bytes)
    IN /\ client.pc \in {"wait", "done"} => Accumulated(client) = Accumulated(whole)
       /\ client.pc = "done" => Outcome(client.messages) = Outcome(whole.messages)

\* a turn ended with content and page images after a read that ended in the
\* middle of a JSON record
C18_Witness ==
    /\ client.pc = "done"
    /\ client.cut
    /\ Outcome(client.messages).content # <<>>
    /\ Outcome(client.messages).pageImages # <<>>

\* C19: once the terminator has been read, no later record changes the
\* content or the page images, and the terminator is never put back on the
\* buffer as a line that failed to parse
C19_NothingAfterDone ==
    client.pc # "idle" =>
        /\ ~client.rebuffered
        /\ client.sawDone =>
             /\ client.atDone.content =
                  (IF client.variant = "images" THEN client.assistantContent
                   ELSE client.pendingContent)
             /\ client.atDone.pageImages = client.pageImages

\* C20: after a failed turn the transcript is the transcript before the turn
\* followed by the user's new message
C20_FailedTurnTranscript ==
    client.pc = "failed" =>
        client.messages = client.before \o <<Message("user", <<"q">>)>>

\* a turn failed after part of the answer was on screen, with earlier
\* messages in the transcript
C20_Witness ==
    /\ client.pc = "failed"
    /\ client.shown
    /\ client.before # <<>>
    /\ client.pos > 0

\* C21: after clearMessages abandoned the turn in flight, no event of its
\* stream creates or modifies a message: the transcript stays empty
C21_AbandonedStreamIsIgnored ==
    (client.pc # "idle" /\ client.cleared) => client.messages = <<>>

\* C22: in the smooth version every turn whose stream has ended without
\* error eventually finishes, and then everything accumulated is displayed
C22_RevealCompletes ==
    (client.pc = "wait") ~> (client.pc = "done"
                              /\ client.displayedContent = client.pendingContent)

\* C23: a rate-limit answer is followed by a retry after a delay that
\* doubles with each attempt, there are at most 3 attempts, and a failure
\* after a rate-limit answer surfaces only after the last attempt
C23_RateLimitRetried ==
    embCall.pc # "idle" =>
        /\ Len(embCall.answers) <= retries
        /\ \A i \in 1 .. Len(embCall.answers) :
             embCall.answers[i] = 429 =>
               /\ Len(embCall.waits) >= i
               /\ embCall.waits[i].ms = RateLimitWait(1) * (2 ^ (i - 1))
        /\ (embCall.pc = "thrown" /\ 429 \in Range(embCall.answers)) =>
               Len(embCall.answers) = retries

\* C24: a failure of the oracle that is not a rate-limit answer surfaces at
\* once: the client has thrown and no call follows that answer
C24_OtherFailureSurfacesAtOnce ==
    embCall.pc # "idle" =>
        \A i \in 1 .. Len(embCall.answers) :
            embCall.answers[i] \notin {200, 429} =>
                i = Len(embCall.answers) /\ embCall.pc = "thrown"

IsPrefix(p, str) == Len(p) <= Len(str) /\ SubSeq(str, 1, Len(p)) = p

\* lines[a], ..., lines[b] with a line feed between them
RECURSIVE Join(_, _, _)
Join(lines, a, b) ==
    IF a > b THEN <<>>
    ELSE IF a = b THEN lines[a]
    ELSE lines[a] \o <<LF>> \o Join(lines, a + 1, b)

\* what a buffer began with in front of its first line: the overlap seed
\* and its line feed, or nothing
SeedPart(h, lines) == SubSeq(h.began, 1, Len(h.began) - Len(lines[h.from]))

\* the seed and the lines of a buffer
Body(h, lines) == SeedPart(h, lines) \o Join(lines, h.from, h.to)

\* the buffer in progress, described like an emitted one
CurrentBuffer == Emitted(chunker, chunker.i - 1)

\* C25: when a structural marker line causes a flush, the next chunk begins
\* exactly with that line and carries nothing of the flushed buffer
C25_MarkerStartsChunk ==
    chunker.pc # "idle" =>
        /\ \A k \in 1 .. Len(chunker.chunks) :
             chunker.hist[k].kind = "marker" =>
               /\ chunker.hist[k].began = chunker.lines[chunker.hist[k].from]
               /\ IsPrefix(Trim(chunker.lines[chunker.hist[k].from]), chunker.chunks[k])
        /\ chunker.kind = "marker" =>
             /\ chunker.began = chunker.lines[chunker.from]
             /\ IsPrefix(chunker.lines[chunker.from], chunker.currentChunk)

\* a chunk that starts at a marker line was emitted although the buffer
\* flushed before it had a break in its overlap window
C25_Witness ==
    /\ chunker.pc = "done"
    /\ \E k \in 2 .. Len(chunker.chunks) :
         /\ chunker.hist[k].kind = "marker"
         /\ breakPoint(lastOverlap(chunker.hist[k].flushed, chunker.overlap)) > 0

\* C26: every chunk has at most chunkSize + overlap characters, unless it is
\* a single input line longer than chunkSize
C26_ChunkLengthBound ==
    chunker.pc # "idle" =>
        \A k \in 1 .. Len(chunker.chunks) :
            \/ Len(chunker.chunks[k]) <= chunker.chunkSize + chunker.overlap
            \/ \E j \in chunker.hist[k].from .. chunker.hist[k].to :
                 /\ chunker.chunks[k] = Trim(chunker.lines[j])
                 /\ Len(chunker.lines[j]) > chunker.chunkSize

\* the buffers cover the lines in order without gap, the seed of a buffer is
\* taken from the overlap window of the buffer flushed before it, and the
\* lines behind the last chunk are a remainder of trimmed length <= 50
CoversInOrder ==
    LET n == Len(chunker.chunks)
        last == IF n = 0 THEN 0 ELSE chunker.hist[n].to
    IN /\ n > 0 => chunker.hist[1].from = 1
       /\ \A k \in 1 .. (n - 1) : chunker.hist[k + 1].from = chunker.hist[k].to + 1
       /\ \A k \in 1 .. n :
            LET seed == SeedPart(chunker.hist[k], chunker.lines)
            IN seed = <<>> \/
                 /\ seed[Len(seed)] = LF
                 /\ Len(seed) - 1 <= chunker.overlap
                 /\ LastIndexOf(lastOverlap(chunker.hist[k].flushed, chunker.overlap),
                                SubSeq(seed, 1, Len(seed) - 1)) >= 0
       /\ last = Len(chunker.lines) \/
            /\ chunker.dropped /\ chunker.from = last + 1
            /\ Len(Trim(Body(CurrentBuffer, chunker.lines))) <= MinChunkLength

\* C27 as stated: the chunks, with the seeds set apart, are the lines of the
\* input in order, but for a final remainder of trimmed length <= 50
C27_LinesReproduced ==
    chunker.pc = "done" =>
        /\ CoversInOrder
        /\ \A k \in 1 .. Len(chunker.chunks) :
             chunker.chunks[k] = Body(chunker.hist[k], chunker.lines)

\* C27: the chunks, with the seeds set apart, are the lines of the input in
\* order up to the white space trim() takes off the two ends of each chunk,
\* but for a final remainder of trimmed length <= 50
C27_LinesReproducedTrimmed ==
    chunker.pc = "done" =>
        /\ CoversInOrder
        /\ \A k \in 1 .. Len(chunker.chunks) :
             chunker.chunks[k] = Trim(Body(chunker.hist[k], chunker.lines))

\* several chunks, one of them with an overlap seed, and a dropped remainder
C27_Witness ==
    /\ chunker.pc = "done"
    /\ Len(chunker.chunks) >= 2
    /\ \E k \in 1 .. Len(chunker.chunks) :
         Len(SeedPart(chunker.hist[k], chunker.lines)) > 1
    /\ chunker.dropped /\ Trim(chunker.currentChunk) # <<>>

ScenarioRun ==
    /\ chunker.pc = "done"
    /\ chunker.lines = Scenario
    /\ <<chunker.chunkSize, chunker.overlap>> = ScenarioParams

\* C28 as stated: the scenario gives exactly two chunks, the second starting
\* with "Section 2"
C28_ScenarioTwoChunks ==
    ScenarioRun =>
        Len(chunker.chunks) = 2 /\ IsPrefix(MarkerLine, chunker.chunks[2])

\* C28: the scenario gives exactly one chunk, which holds the four lines
C28_ScenarioOneChunk ==
    ScenarioRun => chunker.chunks = <<Join(Scenario, 1, 4)>>

C28_Witness == ScenarioRun /\ Len(chunker.chunks) = 1

\* C29: every emitted chunk has a trimmed length greater than 50
C29_MinimumLength ==
    chunker.pc # "idle" =>
        \A k \in 1 .. Len(chunker.chunks) :
            Len(Trim(chunker.chunks[k])) > MinChunkLength

\* the seed the statement describes: the part of the overlap window behind
\* its last ". " or line feed, or the whole window when it has no break
DescribedSeed(flushed, overlap) ==
    LET window == lastOverlap(flushed, overlap)
    IN IF breakPoint(window) >= 0
       THEN Trim(StrSlice(window, breakPoint(window) + 1))
       ELSE window

\* C30: after a flush caused by a line that is no structural marker, the
\* buffer begins with the described seed, a line feed and the line
C30_OverlapSeed ==
    chunker.pc # "idle" =>
        \A h \in {chunker.hist[k] : k \in 1 .. Len(chunker.hist)} \cup {CurrentBuffer} :
            h.kind = "overlap" =>
                h.began = DescribedSeed(h.flushed, chunker.overlap)
                            \o <<LF>> \o chunker.lines[h.from]

\* C31: the fixed-window chunker terminates: every window has at least one
\* character, the start grows at every turn by the window length less the
\* overlap, or by the window length when that is not longer than the
\* overlap, and the next window begins no later than the end of this one
C31_WindowsAdvance ==
    chunker.pc \in {"window", "returned"} =>
        LET w == chunker.windows
            startAfter(i) == IF i < Len(w) THEN w[i + 1].start ELSE chunker.start
        IN /\ Len(w) <= Len(chunker.text)
           /\ Len(w) > 0 => w[1].start = 0
           /\ \A i \in 1 .. Len(w) :
                /\ w[i].length >= 1
                /\ startAfter(i) > w[i].start
                /\ startAfter(i) = w[i].start +
                     (IF w[i].length > chunker.overlap
                      THEN w[i].length - chunker.overlap ELSE w[i].length)
                /\ startAfter(i) <= w[i].start + w[i].length
           /\ (chunker.pc = "returned" /\ Len(w) > 0) =>
                w[Len(w)].start + w[Len(w)].length = Len(chunker.text)

\* a run of three windows with an overlap, one of them cut at a break
C31_Witness ==
    /\ chunker.pc = "returned"
    /\ Len(chunker.windows) >= 3
    /\ chunker.overlap > 0
    /\ \E i \in 1 .. Len(chunker.windows) :
         /\ chunker.windows[i].length < chunker.chunkSize
         /\ chunker.windows[i].start + chunker.windows[i].length < Len(chunker.text)

\* the records of a byte stream: its lines, and what is behind the last line
\* feed when that is not empty
RECURSIVE BackendRecords(_)
BackendRecords(bytes) ==
    LET n == IndexOfLineFeed(bytes)
    IN IF n = 0 THEN (IF bytes = <<>> THEN <<>> ELSE <<ParseBackend(bytes)>>)
       ELSE <<ParseBackend(SubSeq(bytes, 1, n - 1))>> \o
            BackendRecords(SubSeq(bytes, n + 1, Len(bytes)))

\* the text deltas of a sequence of records, concatenated
RECURSIVE DeltaText(_)
DeltaText(lines) ==
    IF lines = <<>> THEN <<>>
    ELSE (IF Head(lines).kind = "delta" THEN Head(lines).content ELSE <<>>)
         \o DeltaText(Tail(lines))

\* C32: when the relay has closed its stream, the text deltas of the records
\* it wrote, concatenated, are those of the records of the backend's stream,
\* a last record without a line feed included, however the bytes were split
\* across the reads
C32_RelayPreservesText ==
    StreamCompleted => DeltaText(chat.out) = DeltaText(BackendRecords(chat.bytes))

\* C33: when a read of the backend's stream fails after the relay has
\* started, the output stream is aborted, the failing step and every later
\* one write nothing, and the aborted output holds no page-image event
C33_NothingAfterFailure ==
    [][(chat.pc \in {"relay", "done"} /\ chat'.pc = "done" /\ chat'.stream = "aborted")
         => /\ chat'.out = chat.out
            /\ \A i \in 1 .. Len(chat'.out) : chat'.out[i].kind # "page_images"
            /\ chat.pc = "done" => chat' = chat]_vars

\* a read failed after a delta had been relayed, in a turn with page images
C33_Witness ==
    /\ chat.pc = "done"
    /\ chat.stream = "aborted"
    /\ Len(chat.pageImageData) > 0
    /\ \E i \in 1 .. Len(chat.out) : chat.out[i].kind = "delta"
    /\ \A i \in 1 .. Len(chat.out) : chat.out[i].kind # "done"

\* C34: when the embedding step has answered and every chunk of its batch
\* failed to embed, the status of the manual is error and the answer is not
\* a success
C34_AllFailedIsFatal ==
    \A p \in Procs :
        (Answered(p) /\ inv[p].kind = "pe" /\ inv[p].n > 0
           /\ inv[p].errorCount = inv[p].n)
          => (status[inv[p].doc] = "error" /\ ~Succeeded(p))

\* the chunks of the manual of the loop that have no embedding
NullCount == Cardinality(NullChunksOf(TheManual))

\* the loop has ended on complete=true with every chunk embedded and the
\* manual ready
PollDone ==
    /\ poll.pc = "done"
    /\ poll.last.complete
    /\ ChunksOf(TheManual) # {} => NullChunksOf(TheManual) = {}
    /\ status[TheManual] = "ready"

C36_SmoothReveal ==
    [][(client'.pc # "idle" /\ client'.variant = "smooth") =>
         LET shown == IF client.pc = "idle" THEN <<>> ELSE client.displayedContent
         IN /\ IsPrefix(client'.displayedContent, client'.pendingContent)
            /\ client'.displayedContent # shown =>
                 /\ Len(client'.displayedContent) = Len(shown) + 1
                 /\ IsPrefix(shown, client'.displayedContent)
            /\ Len(client'.displayedContent) > 0 =>
                 \/ Len(client'.pendingContent) >= BUFFER_THRESHOLD
                 \/ client'.pc \in {"wait", "done"}]_vars

\* the stream is still being read, ticks have shown some of the pending
\* characters and not yet all of them
C36_Witness ==
    /\ client.pc = "read"
    /\ client.variant = "smooth"
    /\ Len(client.displayedContent) >= 2
    /\ Len(client.displayedContent) < Len(client.pendingContent)
    /\ client.timer

\* the stream holds the page-image record of the chat function, which is
\* written with its line feed
HasPagesLine(bytes) ==
    \E i \in 1 .. (Len(bytes) - 2) : SubSeq(bytes, i, i + 2) = PagesLine \o <<NL>>

\* C37: when the stream of a turn holds the page-image record of the chat
\* function and an answer, and the turn has finished without error, the
\* last message of the transcript is the assistant's and carries the page
\* images of the record
C37_PageImagesAttached ==
    (client.pc = "done" /\ client.variant = "images" /\ HasPagesLine(client.bytes)
       /\ client.assistantContent # <<>>)
      => LET last == client.messages[Len(client.messages)]
         IN last.role = "assistant" /\ last.pageImages = ServerPages

\* C38: no step of an ingestion call (ingest-pdf, an upload, or
\* ingest-knowledge, with or without clearFirst) changes the chunks of a
\* manual other than the one the call is for
C38_OtherDocumentsUntouched ==
    [][\A p \in Procs, d \in Manuals :
         (~Free(p) /\ inv[p].kind \in {"pdf", "up", "kn"} /\ inv[p].doc # d)
           => {r \in document_chunks' : r.manual_id = d} = ChunksOf(d)]_vars

\* the retrieval of the turn is over and it failed: the embedding of the
\* query, or the lookup
RetrievalFailed == chat.pc \in {"fetch", "relay", "done"} /\ ~chat.rpcOk

\* C39: when the retrieval of a turn has failed, its result is the empty one,
\* the turn goes on to the generation request with the base prompt alone, a
\* turn that has ended has made that request, and no page-image event is
\* written
C39_RetrievalFailureIsNotFatal ==
    RetrievalFailed =>
        /\ chat.retrieval = EmptyRetrieval
        /\ chat.systemPrompt = SYSTEM_PROMPT
        /\ chat.pageImageData = <<>>
        /\ \A i \in 1 .. Len(chat.out) : chat.out[i].kind # "page_images"
        /\ chat.pc = "done" =>
             \/ chat.backendStatus # 0
             \/ chat.http = 500 /\ chat.body = "error.message"

\* the lookup failed for a question that rows of the manual match, and the
\* answer was streamed to its end
C39_Witness ==
    /\ RetrievalFailed
    /\ StreamCompleted
    /\ chat.queryEmbedding # Null
    /\ Matching(document_chunks, chat.queryEmbedding, chat.manualId, match_threshold) # {}
    /\ \E i \in 1 .. Len(chat.out) : chat.out[i].kind = "delta"

====
